---- MODULE Spec2Model ----
(***************************************************************************)
(* Model of the Yeastar PBX integration for ERPNext (pbx_integration):     *)
(*   - the token lifecycle of the PBX Settings single document             *)
(*     (pbx_integration/doctype/pbx_settings/pbx_settings.py),             *)
(*   - the webhook event router and its call-log handlers                  *)
(*     (api/webhook.py).                                                   *)
(* Each whitelisted endpoint runs as one request; a request is one action  *)
(* here, except in RaceSpec, where the completed-call handler is split at  *)
(* its database statements so that two requests can interleave.            *)
(***************************************************************************)
EXTENDS Integers, Sequences, FiniteSets, TLC

VARIABLES
    enabled,        \* PBX Settings.enabled
    access_token,   \* PBX Settings.access_token ("" is None)
    refresh_token,  \* PBX Settings.refresh_token ("" is None)
    token_expiry,   \* PBX Settings.token_expiry: <<>> is None, <<t>> a datetime
    now,            \* now_datetime(), in seconds
    tok,            \* the last token operation: what it returned and requested
    rows,           \* the PBX Call Log table, in insertion order (index = name)
    erpnext,        \* whether the ERPNext "Call Log" doctype is installed
    erp,            \* the call ids that have an ERPNext Call Log
    last,           \* the last webhook request: its route, its result, its effects
    req,            \* RaceSpec: the completed-call requests in progress
    call,           \* the last call-control request (api/call.py, api/auth.py)
    look,           \* the last phone lookup (api/lookup.py, pbx_call_log.py)
    exts,           \* the PBX User Extension table
    cols,           \* the other columns of the PBX Call Log rows (same index)
    pop             \* the last webhook request: its lookups and notifications

tokenVars == <<enabled, access_token, refresh_token, token_expiry, now, tok>>

hookVars == <<rows, erpnext, erp, last, req>>

opVars == <<call, look, exts, cols, pop>>

vars == <<enabled, access_token, refresh_token, token_expiry, now, tok,
          rows, erpnext, erp, last, req, call, look, exts, cols, pop>>

-----------------------------------------------------------------------------
(* Bounds of the model *)

\* The clock stops advancing at MaxNow seconds.
MaxNow == 1800
\* The PBX Call Log table holds at most MaxRows rows.
MaxRows == 2

(* Program constants *)

\* data.get("access_token_expire_time", 1800)
DefaultExpireSeconds == 1800
\* "Set expiry 5 minutes early to be safe": expire_seconds - 300
SafetyMargin == 300
\* if event_type == 30012: the CDR (call completed) event
TypeCdr == 30012
\* elif event_type == 30011: the call status update event
TypeCallStatus == 30011
\* Event codes the if/elif chain does not name
OtherTypes == {30016}

-----------------------------------------------------------------------------
(* Values *)

\* None / the empty string: both are falsy in the code's tests.
NoToken == ""
NoExpiry == <<>>

\* The steps by which the clock advances between requests.
Delays == {300, 1500}

\* access_token_expire_time as the vendor may report it: <<>> is "absent".
TTLs == {<<>>, <<300>>, <<600>>}

\* What a POST to the vendor can come to: a transport failure
\* (RequestException, raise_for_status), a body with errcode != 0, or a body
\* with errcode == 0 and the token fields.
FailedResponses ==
    { [kind |-> k, access_token |-> NoToken, refresh_token |-> NoToken,
       access_token_expire_time |-> <<>>] : k \in {"transport", "errcode"} }

\* A token the vendor mints is not the one it replaces.
Fresh(stored) == IF stored = "tA" THEN "tB" ELSE "tA"

\* errcode 0 with a token, or (a vendor slip) with no access_token at all.
OkResponses(stored) ==
    [kind : {"ok"}, access_token : {Fresh(stored)},
     refresh_token : {NoToken, "rA"}, access_token_expire_time : TTLs]
    \cup { [kind |-> "ok", access_token |-> NoToken, refresh_token |-> NoToken,
            access_token_expire_time |-> <<>>] }

Responses(stored) == FailedResponses \cup OkResponses(stored)

\* Stands in a response sequence for a response the invocation never reads.
Unread == CHOOSE r \in FailedResponses : r.kind = "transport"

-----------------------------------------------------------------------------
(* PBXSettings: the token lifecycle *)

\* The settings document as loaded for one request.
Settings ==
    [access_token |-> access_token, refresh_token |-> refresh_token,
     token_expiry |-> token_expiry]

\* CacheValid with the comparison turned round.
CacheValid_Inverted(s, t) ==
    /\ s.access_token # NoToken
    /\ s.token_expiry # NoExpiry
    /\ t > s.token_expiry[1]

\* if self.access_token and self.token_expiry: if now_datetime() < self.token_expiry
CacheValid(s, t) ==
    /\ s.access_token # NoToken
    /\ s.token_expiry # NoExpiry
    /\ t < s.token_expiry[1]

\* expire_seconds = data.get("access_token_expire_time", 1800)
expire_seconds(data) ==
    IF data.access_token_expire_time = <<>>
    THEN DefaultExpireSeconds
    ELSE data.access_token_expire_time[1]

\* ExpiryFor without the safety margin.
ExpiryFor_NoMargin(data, t) == t + expire_seconds(data)

\* add_to_date(now_datetime(), seconds=expire_seconds - 300)
ExpiryFor(data, t) == t + expire_seconds(data) - SafetyMargin

\* _save_tokens: the three fields from the response, written to the database.
save_tokens(s, data, t) ==
    [access_token |-> data.access_token,
     refresh_token |-> data.refresh_token,
     token_expiry |-> <<ExpiryFor(data, t)>>]

\* A request in progress: the settings object, the vendor requests sent so far
\* with their outcomes, and the value returned.
NewCall(s) ==
    [s |-> s, reqs |-> <<>>, outs |-> <<>>, got |-> <<>>, ret |-> NoToken]

Sent(c, endpoint, r) ==
    [c EXCEPT !.reqs = Append(@, endpoint), !.outs = Append(@, r.kind),
              !.got = Append(@, r.access_token)]

\* _authenticate returning the stored token when the request failed.
authenticate_StaleOnFailure(c, rs, t) ==
    LET r == rs[Len(c.reqs) + 1]
        c1 == Sent(c, "get_token", r)
    IN  IF r.kind = "ok"
        THEN LET s2 == save_tokens(c.s, r, t)
             IN  [c1 EXCEPT !.s = s2, !.ret = s2.access_token]
        ELSE [c1 EXCEPT !.ret = c.s.access_token]

\* _authenticate: POST get_token; on errcode 0 save and return self.access_token,
\* otherwise None.
authenticate(c, rs, t) ==
    LET r == rs[Len(c.reqs) + 1]
        c1 == Sent(c, "get_token", r)
    IN  IF r.kind = "ok"
        THEN LET s2 == save_tokens(c.s, r, t)
             IN  [c1 EXCEPT !.s = s2, !.ret = s2.access_token]
        ELSE [c1 EXCEPT !.ret = NoToken]

\* What _refresh_access_token does when the refresh call failed.
RefreshFailed(c1, rs, t) == authenticate(c1, rs, t)

\* _refresh_access_token that forgets the stored tokens when the refresh call
\* failed, before it authenticates.
refresh_access_token_ClearOnFailure(c, rs, t) ==
    LET r == rs[Len(c.reqs) + 1]
        c1 == Sent(c, "refresh_token", r)
    IN  IF r.kind = "ok"
        THEN LET s2 == save_tokens(c.s, r, t)
             IN  [c1 EXCEPT !.s = s2, !.ret = s2.access_token]
        ELSE RefreshFailed([c1 EXCEPT !.s = [access_token |-> NoToken,
                                             refresh_token |-> NoToken,
                                             token_expiry |-> NoExpiry]],
                           rs, t)

\* _refresh_access_token: POST refresh_token; on errcode 0 save and return
\* self.access_token; on errcode != 0 or a RequestException, _authenticate().
refresh_access_token(c, rs, t) ==
    LET r == rs[Len(c.reqs) + 1]
        c1 == Sent(c, "refresh_token", r)
    IN  IF r.kind = "ok"
        THEN LET s2 == save_tokens(c.s, r, t)
             IN  [c1 EXCEPT !.s = s2, !.ret = s2.access_token]
        ELSE RefreshFailed(c1, rs, t)

\* get_access_token that authenticates first and only then tries the refresh.
get_access_token_AuthFirst(s, rs, t) ==
    LET c0 == NewCall(s)
    IN  IF CacheValid(s, t)
        THEN [c0 EXCEPT !.ret = s.access_token]
        ELSE LET c1 == authenticate(c0, rs, t)
             IN  IF c1.ret # NoToken \/ s.refresh_token = NoToken
                 THEN c1
                 ELSE refresh_access_token(c1, rs, t)

\* get_access_token past the enabled check: the cached token if still valid,
\* else refresh when a refresh token is stored, else (or when the refresh
\* returned nothing) authenticate.
get_access_token(s, rs, t) ==
    LET c0 == NewCall(s)
    IN  IF CacheValid(s, t)
        THEN [c0 EXCEPT !.ret = s.access_token]
        ELSE LET c1 == IF s.refresh_token # NoToken
                       THEN refresh_access_token(c0, rs, t)
                       ELSE c0
             IN  IF s.refresh_token # NoToken /\ c1.ret # NoToken
                 THEN c1
                 ELSE authenticate(c1, rs, t)

\* How many requests of one invocation went to an endpoint.
Requests(c, endpoint) ==
    Cardinality({i \in 1..Len(c.reqs) : c.reqs[i] = endpoint})

\* One invocation of a method that talks to the vendor, on the responses rs.
Run(op, s, rs, t) ==
    IF op = "get_access_token"
    THEN get_access_token(s, rs, t)
    ELSE authenticate(NewCall(s), rs, t)

\* The response sequences one invocation can consume (at most three: refresh,
\* authenticate, authenticate), each response drawn only when the invocation
\* gets to send the request it answers.
ResponseSeqsOf(R, op, s, t) ==
    UNION { UNION { { <<r1, r2, r3>> :
                r3 \in IF Len(Run(op, s, <<r1, r2, Unread>>, t).reqs) <= 2
                       THEN {Unread} ELSE R } :
                r2 \in IF Len(Run(op, s, <<r1, Unread, Unread>>, t).reqs) <= 1
                       THEN {Unread} ELSE R } :
                r1 \in IF Len(Run(op, s, <<Unread, Unread, Unread>>, t).reqs) = 0
                       THEN {Unread} ELSE R }

ResponseSeqs(op, s, t) == ResponseSeqsOf(Responses(s.access_token), op, s, t)

\* The response _save_tokens was called with in an invocation: the answer to
\* its last request when that answer has errcode 0 (no request follows a save).
Saved(c, rs) ==
    IF c.reqs # <<>> /\ c.outs[Len(c.outs)] = "ok"
    THEN rs[Len(c.reqs)]
    ELSE Unread

NoTok ==
    [op |-> "none", thrown |-> FALSE, ret |-> NoToken, reqs |-> <<>>,
     outs |-> <<>>, got |-> <<>>, hit |-> FALSE, hadRefresh |-> FALSE,
     saved |-> Unread]

-----------------------------------------------------------------------------
(* Actions of the token lifecycle *)

\* PBXSettings.get_access_token, one invocation.
GetAccessToken ==
    \E rs \in ResponseSeqs("get_access_token", Settings, now) :
        IF ~enabled
        THEN /\ tok' = [NoTok EXCEPT !.op = "get_access_token", !.thrown = TRUE]
             /\ UNCHANGED <<enabled, access_token, refresh_token, token_expiry, now, hookVars, opVars>>
        ELSE LET c == get_access_token(Settings, rs, now)
             IN  /\ access_token' = c.s.access_token
                 /\ refresh_token' = c.s.refresh_token
                 /\ token_expiry' = c.s.token_expiry
                 /\ tok' = [op |-> "get_access_token", thrown |-> FALSE,
                            ret |-> c.ret, reqs |-> c.reqs, outs |-> c.outs,
                            got |-> c.got,
                            hit |-> CacheValid(Settings, now),
                            hadRefresh |-> refresh_token # NoToken,
                            saved |-> Saved(c, rs)]
                 /\ UNCHANGED <<enabled, now, hookVars, opVars>>

\* PBXSettings.test_connection with the credentials filled in: _authenticate().
TestConnection ==
    \E rs \in ResponseSeqs("test_connection", Settings, now) :
        LET c == authenticate(NewCall(Settings), rs, now)
        IN  /\ access_token' = c.s.access_token
            /\ refresh_token' = c.s.refresh_token
            /\ token_expiry' = c.s.token_expiry
            /\ tok' = [op |-> "test_connection", thrown |-> FALSE,
                       ret |-> c.ret, reqs |-> c.reqs, outs |-> c.outs,
                            got |-> c.got,
                       hit |-> FALSE, hadRefresh |-> refresh_token # NoToken,
                       saved |-> Saved(c, rs)]
            /\ UNCHANGED <<enabled, now, hookVars, opVars>>

\* An administrator edits the enabled flag of PBX Settings.
SetEnabled ==
    /\ enabled' = ~enabled
    /\ UNCHANGED <<access_token, refresh_token, token_expiry, now, tok, hookVars, opVars>>

\* Time passes between requests.
Advance(d) ==
    /\ now + d <= MaxNow
    /\ now' = now + d
    /\ UNCHANGED <<enabled, access_token, refresh_token, token_expiry, tok, hookVars, opVars>>

Tick == \E d \in Delays : Advance(d)

-----------------------------------------------------------------------------
(* The webhook: payloads *)

\* call ids the vendor sends; NoId is an absent (None) call id.
CallIds == {"c1"}
NoId == ""

\* The "type" tag of a payload: absent, a JSON number, or a string (a form
\* post, or a vendor that quotes the number).
NoType == [kind |-> "absent", val |-> 0]
IntType(n) == [kind |-> "int", val |-> n]
StrType(n) == [kind |-> "str", val |-> n]

\* The fields a handler reads from msg (new envelope) or from the flat
\* legacy payload; "" and 0 stand for an absent field.
NoFields ==
    [call_id |-> NoId, status |-> "", duration |-> 0, caller |-> "",
     members |-> <<>>, kind |-> "", callee |-> "", ext |-> "", start |-> "",
     ending |-> "", recording |-> ""]

\* body: "json" a JSON object, "invalid" not JSON, "nondict" JSON but no object.
\* msgKind (when hasMsg): "object" msg is a JSON string holding an object,
\* "invalid" a string that is not JSON, "nonstring" msg is not a string,
\* "nonobject" a JSON string that holds no object.
Payload(body, type, hasMsg, msgKind, event, d) ==
    [body |-> body, type |-> type, hasMsg |-> hasMsg, msgKind |-> msgKind,
     event |-> event, d |-> d]

NewEnvelope(type, msgKind, d) == Payload("json", type, TRUE, msgKind, "", d)
Legacy(event, d) == Payload("json", NoType, FALSE, "object", event, d)

CdrFields ==
    { [NoFields EXCEPT !.call_id = c, !.status = st, !.duration = du,
                       !.caller = "555", !.kind = "Inbound",
                       !.callee = "101"] :
        c \in CallIds \cup {NoId}, st \in {"ANSWERED", ""}, du \in {7} }

LegacyCdrFields ==
    { [NoFields EXCEPT !.call_id = c, !.status = st, !.duration = du,
                       !.caller = "555", !.kind = "Inbound",
                       !.callee = "101"] :
        c \in CallIds \cup {NoId}, st \in {"BUSY", ""}, du \in {7} }

\* A member of a type-30011 event: its extension's number and member_status.
Member(number, member_status) ==
    [number |-> number, member_status |-> member_status]

StatusFields ==
    { [NoFields EXCEPT !.call_id = c, !.members = ms] :
        c \in CallIds \cup {NoId},
        ms \in {<<>>, <<Member("101", "RING")>>, <<Member("101", "ANSWERED")>>,
                <<Member("101", "BYE")>>,
                <<Member("101", "RING"), Member("101", "ANSWERED")>>} }

LegacyStatusFields ==
    { [NoFields EXCEPT !.call_id = c, !.status = st, !.caller = ca] :
        c \in CallIds \cup {NoId}, st \in {"ringing", "answered"},
        ca \in {"", "555"} }

RingingFields ==
    { [NoFields EXCEPT !.call_id = c, !.caller = ca] :
        c \in CallIds \cup {NoId}, ca \in {"", "555"} }

AnswerFields == { [NoFields EXCEPT !.call_id = c] : c \in CallIds \cup {NoId} }

HangupFields ==
    { [NoFields EXCEPT !.call_id = c, !.duration = du] :
        c \in CallIds \cup {NoId}, du \in {7} }

SomeFields == { [NoFields EXCEPT !.call_id = c, !.caller = "555"] : c \in {"c1"} }

\* The payloads the endpoint is fed.
Payloads ==
    { Payload(b, NoType, FALSE, "object", "", NoFields) :
        b \in {"invalid", "nondict"} }
    \cup { NewEnvelope(IntType(TypeCdr), "object", d) : d \in CdrFields }
    \cup { NewEnvelope(IntType(TypeCallStatus), "object", d) : d \in StatusFields }
    \cup { NewEnvelope(t, "object", d) :
            t \in {IntType(n) : n \in OtherTypes \cup {0}}
                  \cup {StrType(TypeCdr), StrType(TypeCallStatus)},
            d \in SomeFields }
    \cup { NewEnvelope(IntType(n), k, NoFields) :
            n \in {TypeCdr, TypeCallStatus} \cup OtherTypes,
            k \in {"invalid", "nonstring", "nonobject"} }
    \cup { Payload("json", IntType(n), FALSE, "object", e, d) :
            n \in {TypeCdr, TypeCallStatus} \cup OtherTypes, e \in {"", "Ringing"},
            d \in SomeFields }
    \cup { Payload("json", IntType(n), TRUE, "object", "Ringing", d) :
            n \in OtherTypes, d \in SomeFields }
    \cup { Legacy("NewCdr", d) : d \in LegacyCdrFields }
    \cup { Legacy("CallStatus", d) : d \in LegacyStatusFields }
    \cup { Legacy("Ringing", d) : d \in RingingFields }
    \cup { Legacy("answer", d) : d \in AnswerFields }
    \cup { Legacy(e, d) : e \in {"hangup", "HANGUP"}, d \in HangupFields }
    \cup { Legacy(e, d) : e \in {"ExtensionStatus", "Transfer", ""},
                          d \in SomeFields }

-----------------------------------------------------------------------------
(* The webhook: the database and the handlers *)

\* frappe.db.exists("PBX Call Log", {"call_id": call_id}): the names that match.
Matching(table, call_id) ==
    { i \in 1..Len(table) : table[i].call_id = call_id }

\* Whether the PBX Call Log schema declares call_id unique. The doctype's JSON
\* is not among the sources; the specification's data model says that no
\* uniqueness constraint exists on call id.
CallIdUnique == FALSE

\* doc.insert() raises when a unique field would be duplicated.
InsertFails(table, row) ==
    CallIdUnique /\ row.call_id # NoId /\ Matching(table, row.call_id) # {}

\* PBXCallLog.before_insert: the number handed to lookup_and_link.
phone_to_lookup(call_type, caller_number, called_number) ==
    IF call_type = "Inbound" THEN caller_number ELSE called_number

\* What one request has done so far: the tables, the Phone Matcher runs
\* (their count, and the numbers handed to it), the screen-pop notifications
\* published (their count, and each one), and the result it returns.
Env(table, logs) ==
    [rows |-> table, erp |-> logs, lookups |-> 0, pops |-> 0,
     matched |-> <<>>, notes |-> <<>>, status |-> "ok", message |-> ""]

Return(o, status, message) == [o EXCEPT !.status = status, !.message = message]

\* call_log.insert(ignore_permissions=True): before_insert runs the matcher
\* when there is a number to look up, then the row is appended.
insert(o, row, phone) ==
    [o EXCEPT !.rows = Append(@, row),
              !.lookups = IF phone # "" THEN @ + 1 ELSE @,
              !.matched = IF phone # "" THEN Append(@, phone) ELSE @]

\* create_erpnext_call_log: the ERPNext Call Log of the call id, created when
\* there is none.
create_erpnext_call_log(o, call_id) == [o EXCEPT !.erp = @ \cup {call_id}]

\* None as a user.
NoUser == ""

\* get_user_for_extension without the enabled filter: a disabled mapping
\* still names its user.
get_user_for_extension_AnyMapping(extension) ==
    LET mappings == { d \in exts : d.extension = extension }
    IN  IF mappings = {} THEN NoUser ELSE (CHOOSE d \in mappings : TRUE).user

\* PBXUserExtension.get_user_for_extension: the user of an enabled mapping of
\* the extension, NoUser (None) when there is none.
get_user_for_extension(extension) ==
    LET mappings == { d \in exts : d.extension = extension /\ d.enabled }
    IN  IF mappings = {} THEN NoUser ELSE (CHOOSE d \in mappings : TRUE).user

\* frappe.publish_realtime(event, message, user=user_email) when user_email is
\* truthy, without a user (a broadcast) otherwise.
publish_realtime(o, event, user_email, phone_number, extension, call_id) ==
    [o EXCEPT !.pops = @ + 1,
              !.notes = Append(@, [event |-> event, user |-> user_email,
                                   phone |-> phone_number,
                                   extension |-> extension,
                                   call_id |-> call_id])]

\* trigger_screen_pop: nothing without a number; else one lookup, the ERPNext
\* Call Log when ERPNext is installed, and one realtime notification.
trigger_screen_pop(o, phone_number, extension, call_id) ==
    IF phone_number = ""
    THEN o
    ELSE LET o1 == [o EXCEPT !.lookups = @ + 1,
                             !.matched = Append(@, phone_number)]
             user_email == get_user_for_extension(extension)
         IN  IF erpnext
             THEN publish_realtime(create_erpnext_call_log(o1, call_id),
                                   "show_call_popup", user_email,
                                   phone_number, extension, call_id)
             ELSE publish_realtime(o1, "pbx_incoming_call", user_email,
                                   phone_number, extension, call_id)

\* CdrInsert as a conditional insert: it looks again and updates instead.
CdrInsert_Conditional(o, row, phone) ==
    IF row.call_id # NoId /\ Matching(o.rows, row.call_id) # {}
    THEN Return(o, "ok", "Call log updated")
    ELSE Return(insert(o, row, phone), "ok", "Call log created")

\* The completed-call handlers' step after the existence check found nothing
\* (or there was no call id): call_log.insert().
CdrInsert(o, row, phone) ==
    IF InsertFails(o.rows, row)
    THEN Return(o, "error", "insert failed")
    ELSE Return(insert(o, row, phone), "ok", "Call log created")

\* call_log.call_type of handle_yeastar_cdr: msg_data.get("type", "Internal").
cdr_call_type(type) == IF type = "" THEN "Internal" ELSE type

\* call_log.call_type of handle_new_cdr: call_type_map.get(raw_type, "Inbound").
new_cdr_call_type(raw_type) ==
    CASE raw_type \in {"Inbound", "inbound", "in"} -> "Inbound"
      [] raw_type \in {"Outbound", "outbound", "out"} -> "Outbound"
      [] raw_type \in {"Internal", "internal"} -> "Internal"
      [] OTHER -> "Inbound"

\* handle_yeastar_cdr (type 30012). `existing` is what frappe.db.exists
\* returned: a row name, or 0 for None.
handle_yeastar_cdr(o, msgKind, m, existing) ==
    IF msgKind = "nonobject"
    THEN Return(o, "error", "no attribute get")
    ELSE LET call_id == m.call_id
             row == [call_id |-> call_id,
                     status |-> IF m.status = "" THEN "Answered" ELSE m.status,
                     duration |-> m.duration]
         IN  IF call_id # NoId /\ existing # 0
             THEN Return([o EXCEPT !.rows[existing].status = row.status,
                                   !.rows[existing].duration = row.duration],
                         "ok", "Call log updated")
             ELSE CdrInsert(o, row,
                            phone_to_lookup(cdr_call_type(m.kind), m.caller,
                                            m.callee))

\* The members loop of handle_yeastar_call_status.
RECURSIVE Members(_, _, _, _, _)
Members(o, members, i, call_id, existing) ==
    IF i > Len(members)
    THEN o
    ELSE LET o1 ==
                 CASE members[i].member_status = "RING" ->
                        trigger_screen_pop(o, members[i].number,
                                           members[i].number, call_id)
                   [] members[i].member_status = "ANSWERED" ->
                        IF call_id # NoId /\ existing # 0
                        THEN [o EXCEPT !.rows[existing].status = "Answered"]
                        ELSE o
                   [] OTHER -> o
         IN  Members(o1, members, i + 1, call_id, existing)

\* handle_yeastar_call_status (type 30011).
handle_yeastar_call_status(o, msgKind, m, existing) ==
    IF msgKind = "nonobject"
    THEN Return(o, "error", "no attribute get")
    ELSE Return(Members(o, m.members, 1, m.call_id, existing),
                "ok", "Call status processed")

\* status_map of handle_new_cdr, with its default.
new_cdr_status(raw_status, talkdur) ==
    CASE raw_status \in {"ANSWERED", "answered"} -> "Answered"
      [] raw_status \in {"NO ANSWER", "noanswer"} -> "Missed"
      [] raw_status \in {"BUSY", "busy"} -> "Busy"
      [] raw_status \in {"FAILED", "failed"} -> "Failed"
      [] raw_status = "VOICEMAIL" -> "Voicemail"
      [] OTHER -> IF talkdur # 0 THEN "Answered" ELSE "Missed"

\* handle_new_cdr without its existence check.
handle_new_cdr_AlwaysInsert(o, data, existing) ==
    CdrInsert(o,
              [call_id |-> data.call_id,
               status |-> new_cdr_status(data.status, data.duration),
               duration |-> data.duration],
              phone_to_lookup(new_cdr_call_type(data.kind), data.caller,
                              data.callee))

\* handle_new_cdr (legacy NewCdr).
handle_new_cdr(o, data, existing) ==
    LET row == [call_id |-> data.call_id,
                status |-> new_cdr_status(data.status, data.duration),
                duration |-> data.duration]
    IN  IF row.call_id # NoId /\ existing # 0
        THEN Return([o EXCEPT !.rows[existing].status = row.status,
                              !.rows[existing].duration = row.duration],
                    "ok", "Call log updated")
        ELSE CdrInsert(o, row,
                       phone_to_lookup(new_cdr_call_type(data.kind),
                                       data.caller, data.callee))

\* handle_call_status (legacy CallStatus).
handle_call_status(o, data) ==
    Return(IF data.status \in {"ringing", "Ringing", "RINGING"}
           THEN trigger_screen_pop(o, data.caller, data.ext, data.call_id)
           ELSE o,
           "ok", "Call status processed")

\* extension of handle_ringing: ext, else callee.
ringing_extension(data) == IF data.ext # "" THEN data.ext ELSE data.callee

\* handle_ringing creating its row only when the caller's number is known.
handle_ringing_NoInsert(o, data) ==
    LET row == [call_id |-> data.call_id, status |-> "Ringing", duration |-> 0]
        o1 == IF InsertFails(o.rows, row) \/ data.caller = ""
              THEN o
              ELSE insert(o, row, phone_to_lookup("Inbound", data.caller, ""))
    IN  Return(trigger_screen_pop(o1, data.caller, ringing_extension(data),
                                  data.call_id),
               "ok", "Ringing event processed")

\* handle_ringing (legacy Ringing): always a new row, a failed insert is
\* passed over; then the screen pop.
handle_ringing(o, data) ==
    LET row == [call_id |-> data.call_id, status |-> "Ringing", duration |-> 0]
        o1 == IF InsertFails(o.rows, row)
              THEN o
              ELSE insert(o, row, phone_to_lookup("Inbound", data.caller, ""))
    IN  Return(trigger_screen_pop(o1, data.caller, ringing_extension(data),
                                  data.call_id),
               "ok", "Ringing event processed")

\* handle_answer that answers only a ringing row and leaves a row that a
\* completed-call or hangup event has already closed.
handle_answer_RingingOnly(o, data, existing) ==
    Return(IF data.call_id # NoId /\ existing # 0
           THEN [o EXCEPT !.rows[existing].status =
                              IF @ = "Ringing" THEN "Answered" ELSE @]
           ELSE o,
           "ok", "Answer event processed")

\* handle_answer (legacy answer).
handle_answer(o, data, existing) ==
    Return(IF data.call_id # NoId /\ existing # 0
           THEN [o EXCEPT !.rows[existing].status = "Answered"]
           ELSE o,
           "ok", "Answer event processed")

\* handle_hangup that marks every row it closes as Missed.
handle_hangup_AlwaysMissed(o, data, existing) ==
    Return(IF data.call_id # NoId /\ existing # 0
           THEN [o EXCEPT !.rows[existing].duration = data.duration,
                          !.rows[existing].status = "Missed"]
           ELSE o,
           "ok", "Hangup event processed")

\* handle_hangup (legacy hangup / HANGUP).
handle_hangup(o, data, existing) ==
    Return(IF data.call_id # NoId /\ existing # 0
           THEN [o EXCEPT !.rows[existing].duration = data.duration,
                          !.rows[existing].status =
                              IF @ = "Ringing" THEN "Missed" ELSE @]
           ELSE o,
           "ok", "Hangup event processed")

\* handle_extension_status.
handle_extension_status(o) == Return(o, "ok", "Extension status received")

-----------------------------------------------------------------------------
(* The webhook: receive *)

\* Python truthiness of event_type.
Truthy(type) == type.kind # "absent" /\ type.val # 0

\* TypeIs comparing after int(event_type): "30012" equals 30012.
TypeIs_Loose(type, n) == type.kind \in {"int", "str"} /\ type.val = n

\* event_type == n, for the int n of the code: a string never equals it.
TypeIs(type, n) == type.kind = "int" /\ type.val = n

\* event_name = data.get("event") or data.get("action") or "unknown"
event_name(p) == IF p.event # "" THEN p.event ELSE "unknown"

\* msg_data: the parsed msg; {} when msg is not valid JSON.
msg_data(p) == IF p.msgKind = "invalid" THEN NoFields ELSE p.d

\* The legacy routing of receive, by event name.
LegacyRoute(p) ==
    CASE event_name(p) = "NewCdr" -> "handle_new_cdr"
      [] event_name(p) = "CallStatus" -> "handle_call_status"
      [] event_name(p) = "ExtensionStatus" -> "handle_extension_status"
      [] event_name(p) = "Ringing" -> "handle_ringing"
      [] event_name(p) = "answer" -> "handle_answer"
      [] event_name(p) \in {"hangup", "HANGUP"} -> "handle_hangup"
      [] OTHER -> "unhandled_event"

\* Route with the return of the unhandled-type branch lost: an unknown type
\* falls through to the legacy routing.
Route_FallThrough(p) ==
    IF p.body # "json"
    THEN "except"
    ELSE IF Truthy(p.type) /\ p.hasMsg
    THEN IF p.msgKind = "nonstring" THEN "except"
         ELSE IF TypeIs(p.type, TypeCdr) THEN "handle_yeastar_cdr"
         ELSE IF TypeIs(p.type, TypeCallStatus) THEN "handle_yeastar_call_status"
         ELSE LegacyRoute(p)
    ELSE LegacyRoute(p)

\* Where receive sends a payload: a handler, "unhandled_type" /
\* "unhandled_event" for the two acknowledgements, "except" for the outer
\* exception handler (the body does not parse or is no object, msg is no string).
Route(p) ==
    IF p.body # "json"
    THEN "except"
    ELSE IF Truthy(p.type) /\ p.hasMsg
    THEN IF p.msgKind = "nonstring" THEN "except"
         ELSE IF TypeIs(p.type, TypeCdr) THEN "handle_yeastar_cdr"
         ELSE IF TypeIs(p.type, TypeCallStatus) THEN "handle_yeastar_call_status"
         ELSE "unhandled_type"
    ELSE LegacyRoute(p)

\* The call id the routed handler reads from the payload.
HandlerCallId(p) ==
    IF Route(p) \in {"handle_yeastar_cdr", "handle_yeastar_call_status"}
    THEN IF p.msgKind = "nonobject" THEN NoId ELSE msg_data(p).call_id
    ELSE IF Route(p) \in {"except", "unhandled_type", "unhandled_event",
                          "handle_extension_status"}
    THEN NoId
    ELSE p.d.call_id

\* receive: the routed handler's result on the tables.
receive(p, table, logs, existing) ==
    LET o == Env(table, logs)
        h == Route(p)
    IN  CASE h = "except" -> Return(o, "error", "exception")
          [] h = "handle_yeastar_cdr" ->
                handle_yeastar_cdr(o, p.msgKind, msg_data(p), existing)
          [] h = "handle_yeastar_call_status" ->
                handle_yeastar_call_status(o, p.msgKind, msg_data(p), existing)
          [] h = "unhandled_type" -> Return(o, "ok", "Event type received")
          [] h = "handle_new_cdr" -> handle_new_cdr(o, p.d, existing)
          [] h = "handle_call_status" -> handle_call_status(o, p.d)
          [] h = "handle_extension_status" -> handle_extension_status(o)
          [] h = "handle_ringing" -> handle_ringing(o, p.d)
          [] h = "handle_answer" -> handle_answer(o, p.d, existing)
          [] h = "handle_hangup" -> handle_hangup(o, p.d, existing)
          [] OTHER -> Return(o, "ok", "Event received but not handled")

\* What frappe.db.exists may return for a call id: one of the matching names
\* (the query names no order), 0 for None.
Existing(table, call_id) ==
    IF call_id = NoId \/ Matching(table, call_id) = {}
    THEN {0}
    ELSE Matching(table, call_id)

NoRequest ==
    [h |-> "none", cid |-> NoId, status |-> "ok",
     message |-> "", lookups |-> 0, pops |-> 0]

\* One webhook request, served from start to end.
Receive(p) ==
    \E existing \in Existing(rows, HandlerCallId(p)) :
        \E o \in {receive(p, rows, erp, existing)} :
            /\ Len(o.rows) <= MaxRows
            /\ rows' = o.rows
            /\ erp' = o.erp
            /\ last' = [h |-> Route(p),
                        cid |-> HandlerCallId(p), status |-> o.status,
                        message |-> o.message, lookups |-> o.lookups,
                        pops |-> o.pops]
            /\ UNCHANGED <<erpnext, req, tokenVars, opVars>>

Webhook == \E p \in Payloads : Receive(p)

-----------------------------------------------------------------------------
(* The webhook: every column of the call-log rows, and the screen pops *)

\* now_datetime(), as a column value.
Now == "now"

\* Time strings of the payloads that frappe.utils.get_datetime accepts.
ValidTimes == {"t0", "t1"}

\* parse_datetime: None ("") for an absent string and for one that
\* get_datetime rejects.
parse_datetime(dt_string) == IF dt_string \in ValidTimes THEN dt_string ELSE ""

\* The columns of a PBX Call Log row besides call_id, status and duration, as
\* frappe.new_doc leaves them. "" stands for None; linked is the number
\* before_insert handed to lookup_and_link, whose matches are the linked
\* Contact, Customer and Lead.
NoColumns ==
    [call_type |-> "", caller_number |-> "", called_number |-> "",
     extension |-> "", call_start |-> "", call_answer |-> "", call_end |-> "",
     has_recording |-> 0, recording_url |-> "", linked |-> ""]

\* before_insert on a new document.
before_insert(doc) ==
    [doc EXCEPT !.linked = phone_to_lookup(doc.call_type, doc.caller_number,
                                           doc.called_number)]

\* The document handle_yeastar_cdr builds from msg_data.
cdr_doc(m) ==
    [NoColumns EXCEPT
        !.call_type = cdr_call_type(m.kind),
        !.caller_number = m.caller,
        !.called_number = m.callee,
        !.extension = IF m.kind = "Outbound" THEN m.caller ELSE m.callee,
        !.call_start = parse_datetime(m.start),
        !.has_recording = IF m.recording # "" THEN 1 ELSE 0,
        !.recording_url = m.recording]

\* The document handle_new_cdr builds from the flat payload.
new_cdr_doc(data) ==
    [NoColumns EXCEPT
        !.call_type = new_cdr_call_type(data.kind),
        !.caller_number = data.caller,
        !.called_number = data.callee,
        !.extension = ringing_extension(data),
        !.call_start = parse_datetime(data.start),
        !.call_end = parse_datetime(data.ending),
        !.has_recording = IF data.recording # "" THEN 1 ELSE 0,
        !.recording_url = data.recording]

\* The document handle_ringing builds.
ringing_doc(data) ==
    [NoColumns EXCEPT
        !.call_type = "Inbound",
        !.caller_number = data.caller,
        !.extension = ringing_extension(data),
        !.call_start = Now]

\* Whether a member of a type-30011 event has member_status ANSWERED.
HasAnswered(members) ==
    \E i \in 1..Len(members) : members[i].member_status = "ANSWERED"

\* The handlers' column writes when a completed-call event on an existing row
\* stores the whole new document in its place.
columns_Replace(p, table, existing, inserted) ==
    LET h == Route(p)
        hit == HandlerCallId(p) # NoId /\ existing # 0
    IN  CASE h = "handle_yeastar_cdr" /\ p.msgKind # "nonobject" ->
                IF hit
                THEN [table EXCEPT ![existing] = cdr_doc(msg_data(p))]
                ELSE IF inserted
                THEN Append(table, before_insert(cdr_doc(msg_data(p))))
                ELSE table
          [] h = "handle_yeastar_call_status" /\ p.msgKind # "nonobject" ->
                IF hit /\ HasAnswered(msg_data(p).members)
                THEN [table EXCEPT ![existing].call_answer = Now]
                ELSE table
          [] h = "handle_new_cdr" ->
                IF hit
                THEN [table EXCEPT ![existing] = new_cdr_doc(p.d)]
                ELSE IF inserted
                THEN Append(table, before_insert(new_cdr_doc(p.d)))
                ELSE table
          [] h = "handle_ringing" ->
                IF inserted
                THEN Append(table, before_insert(ringing_doc(p.d)))
                ELSE table
          [] h = "handle_answer" ->
                IF hit THEN [table EXCEPT ![existing].call_answer = Now]
                ELSE table
          [] h = "handle_hangup" ->
                IF hit THEN [table EXCEPT ![existing].call_end = Now]
                ELSE table
          [] OTHER -> table

\* What the routed handler does to the other columns: `inserted` says that its
\* insert went through, `existing` is what frappe.db.exists returned.
columns(p, table, existing, inserted) ==
    LET h == Route(p)
        hit == HandlerCallId(p) # NoId /\ existing # 0
    IN  CASE h = "handle_yeastar_cdr" /\ p.msgKind # "nonobject" ->
                IF hit
                THEN [table EXCEPT
                        ![existing].has_recording = cdr_doc(msg_data(p)).has_recording,
                        ![existing].recording_url = cdr_doc(msg_data(p)).recording_url]
                ELSE IF inserted
                THEN Append(table, before_insert(cdr_doc(msg_data(p))))
                ELSE table
          [] h = "handle_yeastar_call_status" /\ p.msgKind # "nonobject" ->
                IF hit /\ HasAnswered(msg_data(p).members)
                THEN [table EXCEPT ![existing].call_answer = Now]
                ELSE table
          [] h = "handle_new_cdr" ->
                IF hit
                THEN [table EXCEPT
                        ![existing].call_end = new_cdr_doc(p.d).call_end,
                        ![existing].has_recording = new_cdr_doc(p.d).has_recording,
                        ![existing].recording_url = new_cdr_doc(p.d).recording_url]
                ELSE IF inserted
                THEN Append(table, before_insert(new_cdr_doc(p.d)))
                ELSE table
          [] h = "handle_ringing" ->
                IF inserted
                THEN Append(table, before_insert(ringing_doc(p.d)))
                ELSE table
          [] h = "handle_answer" ->
                IF hit THEN [table EXCEPT ![existing].call_answer = Now]
                ELSE table
          [] h = "handle_hangup" ->
                IF hit THEN [table EXCEPT ![existing].call_end = Now]
                ELSE table
          [] OTHER -> table

\* The extension mappings an administrator keeps: extension 101 belongs to
\* one user, extension 102 to another.
ExtensionDocs ==
    { [extension |-> "101", user |-> "agent1@example.com"],
      [extension |-> "102", user |-> "agent2@example.com"] }

\* A PBX User Extension document is saved, enabled or not, in place of the
\* user's earlier one.
SaveExtension ==
    /\ \E d \in ExtensionDocs : \E e \in BOOLEAN :
           exts' = { x \in exts : x.user # d.user }
                   \cup { [extension |-> d.extension, user |-> d.user,
                           enabled |-> e] }
    /\ UNCHANGED <<tokenVars, hookVars, call, look, cols, pop>>

\* The payloads of the run on every column: each event kind with the fields
\* its handler copies into the row.
DetailCdrFields ==
    { [NoFields EXCEPT !.call_id = "c1", !.status = "ANSWERED",
                       !.duration = 7, !.caller = "777", !.callee = "888",
                       !.kind = "Outbound", !.start = "t0",
                       !.recording = "rec.wav"] }

DetailNewCdrFields ==
    { [NoFields EXCEPT !.call_id = "c1", !.status = "BUSY", !.duration = 7,
                       !.caller = "777", !.callee = "888", !.kind = "out",
                       !.start = "t0", !.ending = "t1"] }

DetailStatusFields ==
    { [NoFields EXCEPT !.call_id = "c1",
                       !.members = <<Member("101", "ANSWERED")>>] }

DetailRingingFields ==
    { [NoFields EXCEPT !.call_id = "c1", !.caller = "555", !.ext = "101"] }

DetailAnswerFields == { [NoFields EXCEPT !.call_id = "c1"] }

DetailHangupFields ==
    { [NoFields EXCEPT !.call_id = c, !.duration = 9] : c \in {"c1", NoId} }

DetailPayloads ==
    { NewEnvelope(IntType(TypeCdr), "object", d) : d \in DetailCdrFields }
    \cup { NewEnvelope(IntType(TypeCallStatus), "object", d) :
            d \in DetailStatusFields }
    \cup { Legacy("NewCdr", d) : d \in DetailNewCdrFields }
    \cup { Legacy("Ringing", d) : d \in DetailRingingFields }
    \cup { Legacy("answer", d) : d \in DetailAnswerFields }
    \cup { Legacy("hangup", d) : d \in DetailHangupFields }

\* The payloads of the ringing paths: the caller's number present or not, the
\* ringing extension mapped or not.
PopStatusFields ==
    { [NoFields EXCEPT !.call_id = "c1", !.caller = "555", !.members = ms] :
        ms \in {<<Member("101", "RING")>>, <<Member("", "RING")>>,
                <<Member("101", "RING"), Member("102", "RING")>>} }

PopRingingFields ==
    { [NoFields EXCEPT !.call_id = "c1", !.status = "ringing", !.caller = ca,
                       !.ext = e] :
        ca \in {"", "555"}, e \in {"", "101"} }

PopPayloads ==
    { NewEnvelope(IntType(TypeCallStatus), "object", d) : d \in PopStatusFields }
    \cup { Legacy(e, d) : e \in {"CallStatus", "Ringing"},
                          d \in PopRingingFields }

\* The record of a webhook request: the payload, the row frappe.db.exists
\* returned, the numbers handed to the Phone Matcher and the notifications.
NoPop ==
    [p |-> Payload("none", NoType, FALSE, "object", "", NoFields),
     existing |-> 0, matched |-> <<>>, notes |-> <<>>]

\* One webhook request, served from start to end, on every column.
ReceiveDetailed(p) ==
    /\ \E existing \in Existing(rows, HandlerCallId(p)) :
        \E o \in {receive(p, rows, erp, existing)} :
            /\ Len(o.rows) <= MaxRows
            /\ rows' = o.rows
            /\ erp' = o.erp
            /\ cols' = columns(p, cols, existing, Len(o.rows) > Len(rows))
            /\ last' = [h |-> Route(p),
                        cid |-> HandlerCallId(p), status |-> o.status,
                        message |-> o.message, lookups |-> o.lookups,
                        pops |-> o.pops]
            /\ pop' = [p |-> p, existing |-> existing,
                       matched |-> o.matched, notes |-> o.notes]
    /\ UNCHANGED <<erpnext, req, tokenVars, call, look, exts>>

DetailNext == \E p \in DetailPayloads : ReceiveDetailed(p)

PopNext ==
    \/ \E p \in PopPayloads : ReceiveDetailed(p)
    \/ SaveExtension

-----------------------------------------------------------------------------
(* The webhook when a Frappe call inside the handler raises *)

\* Where an exception strikes inside the routed handler: at its first database
\* call (nothing is written yet), or at its last Frappe call (its rows are
\* committed, the notification is not published).
Faults == {"none", "first_call", "last_call"}

\* Handlers whose body is one try / except Exception that returns
\* {"status": "error"}; the others have no handler of their own around
\* frappe.db.exists, get_doc, save and trigger_screen_pop.
LocalTry ==
    {"handle_yeastar_cdr", "handle_yeastar_call_status", "handle_new_cdr",
     "handle_call_status"}

\* Routes that make no Frappe call that could raise inside a handler.
NoHandlerCalls == {"except", "unhandled_type", "unhandled_event",
                   "handle_extension_status"}

\* An exception leaves the function.
Raise(o) == Return(o, "raised", "exception")

\* What the handler h has done and returns when the fault strikes; done is
\* what it does without a fault.
Faulted(h, o, done, fault) ==
    LET sofar == IF fault = "first_call" THEN o ELSE [done EXCEPT !.pops = 0, !.notes = <<>>]
    IN  IF h \in LocalTry
        THEN Return(sofar, "error", "exception")
        ELSE Raise(sofar)

\* receive without its outer handler: the exception goes on to the caller.
Caught_Reraise(o) == o

\* receive's outer try / except Exception: return {"status": "error", ...}.
Caught(o) == IF o.status = "raised" THEN Return(o, "error", "exception") ELSE o

\* receive with a fault inside the routed handler.
receive_faulted(p, table, logs, existing, fault) ==
    LET done == receive(p, table, logs, existing)
    IN  IF fault = "none" \/ Route(p) \in NoHandlerCalls
        THEN done
        ELSE Caught(Faulted(Route(p), Env(table, logs), done, fault))

\* One webhook request during which a Frappe call may raise.
ReceiveFaulted(p, fault) ==
    \E existing \in Existing(rows, HandlerCallId(p)) :
        \E o \in {receive_faulted(p, rows, erp, existing, fault)} :
            /\ Len(o.rows) <= MaxRows
            /\ rows' = o.rows
            /\ erp' = o.erp
            /\ last' = [h |-> Route(p),
                        cid |-> HandlerCallId(p), status |-> o.status,
                        message |-> o.message, lookups |-> o.lookups,
                        pops |-> o.pops]
            /\ UNCHANGED <<erpnext, req, tokenVars, opVars>>

FaultNext == \E p \in Payloads : \E fault \in Faults : ReceiveFaulted(p, fault)

-----------------------------------------------------------------------------
(* Two webhook deliveries served at the same time *)

\* The two requests of the race.
Workers == {1, 2}

Idle == [pc |-> "idle", p |-> Legacy("", NoFields), existing |-> 0,
         message |-> ""]

\* Completed-call deliveries: type 30012 with its msg, and legacy NewCdr.
CompletedCalls ==
    { NewEnvelope(IntType(TypeCdr), "object", d) :
        d \in CdrFields }
    \cup { Legacy("NewCdr", d) : d \in LegacyCdrFields }

\* The handler up to and with its existence check:
\* existing = frappe.db.exists("PBX Call Log", {"call_id": call_id}).
CdrCheck(w) ==
    \E p \in CompletedCalls :
    \E existing \in Existing(rows, HandlerCallId(p)) :
        /\ req[w].pc = "idle"
        /\ req' = [req EXCEPT ![w] = [pc |-> "checked", p |-> p,
                                      existing |-> existing, message |-> ""]]
        /\ UNCHANGED <<rows, erpnext, erp, last, tokenVars, opVars>>

\* The rest of the handler, on what the check returned: set_value / save on the
\* existing row, or insert; then commit.
CdrWrite(w) ==
    /\ req[w].pc = "checked"
    /\ LET o == receive(req[w].p, rows, erp, req[w].existing)
       IN  /\ Len(o.rows) <= MaxRows
           /\ rows' = o.rows
           /\ req' = [req EXCEPT ![w].pc = "done", ![w].message = o.message]
    /\ UNCHANGED <<erpnext, erp, last, tokenVars, opVars>>

\* The response goes out; the worker takes the next delivery.
CdrRespond(w) ==
    /\ req[w].pc = "done"
    /\ req' = [req EXCEPT ![w] = Idle]
    /\ UNCHANGED <<rows, erpnext, erp, last, tokenVars, opVars>>

RaceNext ==
    \E w \in Workers : CdrCheck(w) \/ CdrWrite(w) \/ CdrRespond(w)

-----------------------------------------------------------------------------
(* Call control: api/call.py and api/auth.py *)

\* Strings the code inspects character by character are sequences of
\* one-character strings here.
DigitChars == {"0", "1", "2", "3", "4", "5", "6", "7", "8", "9"}

\* c.isdigit() or c == "+"
IsDialChar(c) == c \in DigitChars \/ c = "+"

\* callee = "".join(c for c in callee if c.isdigit() or c == "+")
CleanCallee(callee) == SelectSeq(callee, IsDialChar)

\* What a POST to a call endpoint can come to: a transport failure, a body
\* with errcode 0, a body with another errcode, and (answer) a body whose
\* errmsg contains "INTERFACE NOT EXISTED".
CallResponses == {"transport", "ok", "errcode", "interface"}

\* Token responses in the call-control requests: a failure, or errcode 0 with
\* a token, a refresh token and no TTL field.
PlainResponses(stored) ==
    { Unread,
      [kind |-> "ok", access_token |-> Fresh(stored), refresh_token |-> "rA",
       access_token_expire_time |-> <<>>] }

\* One call-control request in progress: the settings object, the call-log
\* table, what was sent to the call endpoints, the call-log status writes, and
\* the result so far.
NewOp(s, table) ==
    [s |-> s, rows |-> table, success |-> FALSE, raised |-> FALSE,
     message |-> "", reqs |-> <<>>, outs |-> <<>>, channel_id |-> "",
     token |-> "unasked", updates |-> <<>>]

\* requests.post(url, ...) to a call endpoint, answered by r.
Post(k, endpoint, r) ==
    [k EXCEPT !.reqs = Append(@, endpoint), !.outs = Append(@, r)]

\* return {"success": False, "message": ...}
Fail(k, message) == [k EXCEPT !.success = FALSE, !.message = message]

\* return {"success": True, "message": ...}
Done(k, message) == [k EXCEPT !.success = TRUE, !.message = message]

\* frappe.throw(...): the exception leaves the whitelisted function.
Throw(k, message) ==
    [k EXCEPT !.success = FALSE, !.raised = TRUE, !.message = message]

\* access_token = settings.get_access_token(), on the request's settings.
WithToken(k, c) ==
    [k EXCEPT !.s = c.s, !.token = IF c.ret = NoToken THEN "null" ELSE "ok"]

\* The null-token test left out.
TokenMissing_Never(token) == FALSE

\* if not access_token:
TokenMissing(token) == token = NoToken

\* _update_call_log_status: the ERPNext Call Log of the call id when there is
\* one, else the PBX Call Log rows of the call id; exceptions are logged.
update_call_log_status(k, call_id, status) ==
    IF erpnext /\ call_id \in erp
    THEN [k EXCEPT !.updates = Append(@, <<"Call Log", call_id, status>>)]
    ELSE IF Matching(k.rows, call_id) # {}
    THEN [k EXCEPT !.rows = [i \in DOMAIN @ |->
                                IF @[i].call_id = call_id
                                THEN [@[i] EXCEPT !.status = status]
                                ELSE @[i]],
                   !.updates = Append(@, <<"PBX Call Log", call_id, status>>)]
    ELSE k

\* The dial request without the except clause.
dial_NoExcept(k, r) ==
    LET k1 == Post(k, "dial", r)
    IN  CASE r = "transport" -> Throw(k1, "RequestException")
          [] r = "ok" -> Done(k1, "Calling")
          [] OTHER -> Fail(k1, "Failed to initiate call")

\* make_call, its try block: POST call/dial, raise_for_status, errcode test;
\* except RequestException.
dial(k, r) ==
    LET k1 == Post(k, "dial", r)
    IN  CASE r = "transport" -> Fail(k1, "Failed to connect to PBX")
          [] r = "ok" -> Done(k1, "Calling")
          [] OTHER -> Fail(k1, "Failed to initiate call")

\* make_call(callee, caller): mapped tells whether the session user has an
\* enabled PBX User Extension.
make_call(k, callee, caller, mapped, en, rs, t, r) ==
    IF callee = <<>>
    THEN Fail(k, "Phone number is required")
    ELSE IF CleanCallee(callee) = <<>>
    THEN Fail(k, "Invalid phone number")
    ELSE IF caller = "" /\ ~mapped
    THEN Fail(k, "No extension mapped to your user account")
    ELSE IF ~en
    THEN Fail(k, "PBX Integration is not enabled")
    ELSE LET c == get_access_token(k.s, rs, t)
             k1 == WithToken(k, c)
         IN  IF TokenMissing(c.ret)
             THEN Fail(k1, "Failed to authenticate with PBX")
             ELSE dial(k1, r)

\* The answer request retried after any vendor error.
answer_RetryAlways(k, call_id, channel_id, r1, r2) ==
    LET k1 == Post([k EXCEPT !.channel_id = channel_id], "answer", r1)
    IN  CASE r1 = "transport" -> Fail(k1, "Failed to answer call")
          [] r1 = "ok" ->
                Done(update_call_log_status(k1, call_id, "In Progress"),
                     "Call answered")
          [] OTHER ->
                LET k2 == Post(k1, "answer", r2)
                IN  CASE r2 = "transport" -> Fail(k2, "Failed to answer call")
                      [] r2 = "ok" ->
                            Done(update_call_log_status(k2, call_id, "In Progress"),
                                 "Call answered")
                      [] OTHER -> Fail(k2, "Failed to answer call: errmsg")

\* answer_call, its try block: POST call/answer; on "INTERFACE NOT EXISTED"
\* with a channel_id, POST again without the channel_id; except Exception.
answer(k, call_id, channel_id, r1, r2) ==
    LET k1 == Post([k EXCEPT !.channel_id = channel_id], "answer", r1)
    IN  CASE r1 = "transport" -> Fail(k1, "Failed to answer call")
          [] r1 = "ok" ->
                Done(update_call_log_status(k1, call_id, "In Progress"),
                     "Call answered")
          [] r1 = "interface" /\ channel_id # "" ->
                LET k2 == Post(k1, "answer", r2)
                IN  CASE r2 = "transport" -> Fail(k2, "Failed to answer call")
                      [] r2 = "ok" ->
                            Done(update_call_log_status(k2, call_id, "In Progress"),
                                 "Call answered")
                      [] OTHER -> Fail(k2, "Failed to answer call: errmsg")
          [] OTHER -> Fail(k1, "Failed to answer call: errmsg")

\* answer_call without its test of the enabled flag.
answer_call_NoEnabledCheck(k, call_id, channel_id, en, rs, t, r1, r2) ==
    IF call_id = NoId
    THEN Fail(k, "Call ID is required")
    ELSE LET c == get_access_token(k.s, rs, t)
             k1 == WithToken(k, c)
         IN  IF TokenMissing(c.ret)
             THEN Fail(k1, "Failed to authenticate with PBX")
             ELSE answer(k1, call_id, channel_id, r1, r2)

\* answer_call(call_id, channel_id)
answer_call(k, call_id, channel_id, en, rs, t, r1, r2) ==
    IF call_id = NoId
    THEN Fail(k, "Call ID is required")
    ELSE IF ~en
    THEN Fail(k, "PBX integration is disabled")
    ELSE LET c == get_access_token(k.s, rs, t)
             k1 == WithToken(k, c)
         IN  IF TokenMissing(c.ret)
             THEN Fail(k1, "Failed to authenticate with PBX")
             ELSE answer(k1, call_id, channel_id, r1, r2)

\* The hangup request with the call log closed whatever the vendor answers.
hangup_UpdateAlways(k, call_id, r) ==
    LET k1 == update_call_log_status(Post(k, "hangup", r), call_id, "Completed")
    IN  CASE r = "transport" -> Fail(k1, "Failed to hang up call")
          [] r = "ok" -> Done(k1, "Call ended")
          [] OTHER -> Fail(k1, "Failed to hang up: errmsg")

\* hangup_call, its try block: POST call/hangup; except Exception.
hangup(k, call_id, r) ==
    LET k1 == Post(k, "hangup", r)
    IN  CASE r = "transport" -> Fail(k1, "Failed to hang up call")
          [] r = "ok" ->
                Done(update_call_log_status(k1, call_id, "Completed"),
                     "Call ended")
          [] OTHER -> Fail(k1, "Failed to hang up: errmsg")

\* hangup_call(call_id, channel_id)
hangup_call(k, call_id, en, rs, t, r) ==
    IF call_id = NoId
    THEN Fail(k, "Call ID is required")
    ELSE IF ~en
    THEN Fail(k, "PBX integration is disabled")
    ELSE LET c == get_access_token(k.s, rs, t)
             k1 == WithToken(k, c)
         IN  IF TokenMissing(c.ret)
             THEN Fail(k1, "Failed to authenticate with PBX")
             ELSE hangup(k1, call_id, r)

\* What the Linkus get_token and the sign/create requests can come to:
\* "empty" is errcode 0 without the token (without the signature).
SignResponses == {"transport", "errcode", "empty", "ok"}

\* get_webrtc_signature: all of it inside one try / except Exception. creds
\* tells whether the Linkus SDK credentials are configured.
get_webrtc_signature(k, en, creds, mapped, r1, r2) ==
    IF ~en
    THEN Fail(k, "PBX integration is disabled")
    ELSE IF ~creds
    THEN Fail(k, "Linkus SDK credentials not configured")
    ELSE IF ~mapped
    THEN Fail(k, "No extension mapped to your user account")
    ELSE LET k1 == Post(k, "get_token", r1)
         IN  CASE r1 = "transport" -> Fail(k1, "Failed to generate WebRTC signature")
               [] r1 = "errcode" -> Fail(k1, "Failed to get Linkus SDK token")
               [] r1 = "empty" -> Fail(k1, "No access token returned")
               [] OTHER ->
                   LET k2 == Post(k1, "sign/create", r2)
                   IN  CASE r2 = "transport" ->
                                Fail(k2, "Failed to generate WebRTC signature")
                         [] r2 = "errcode" -> Fail(k2, "Failed to generate signature")
                         [] r2 = "empty" -> Fail(k2, "No signature returned from PBX")
                         [] OTHER -> Done(k2, "signature")

\* api/auth.py get_access_token: throws without read permission, when the
\* integration is disabled and when no token was obtained.
auth_get_access_token(k, permitted, en, rs, t) ==
    IF ~permitted
    THEN Throw(k, "Not permitted")
    ELSE IF ~en
    THEN Throw(k, "PBX Integration is not enabled")
    ELSE LET c == get_access_token(k.s, rs, t)
             k1 == WithToken(k, c)
         IN  IF c.ret = NoToken
             THEN Throw(k1, "Failed to get access token")
             ELSE Done(k1, "token")

\* PBXSettings.get_access_token, all of it: frappe.throw when the integration
\* is not enabled, else the token or None.
settings_get_access_token(k, en, rs, t) ==
    IF ~en
    THEN Throw(k, "PBX Integration is not enabled")
    ELSE LET c == get_access_token(k.s, rs, t)
             k1 == WithToken(k, c)
         IN  IF c.ret = NoToken THEN Fail(k1, "None") ELSE Done(k1, "token")

NoOp ==
    [op |-> "none", success |-> FALSE, raised |-> FALSE, message |-> "",
     reqs |-> <<>>, outs |-> <<>>, channel_id |-> "", token |-> "unasked",
     updates |-> <<>>, serial |-> 0]

\* The request k has ended: its writes are in the database, its result is out.
\* serial is the parity of the number of requests served.
Finish(op, k) ==
    /\ access_token' = k.s.access_token
    /\ refresh_token' = k.s.refresh_token
    /\ token_expiry' = k.s.token_expiry
    /\ rows' = k.rows
    /\ call' = [op |-> op, success |-> k.success, raised |-> k.raised,
                message |-> k.message, reqs |-> k.reqs, outs |-> k.outs,
                channel_id |-> k.channel_id, token |-> k.token,
                updates |-> k.updates, serial |-> 1 - call.serial]
    /\ UNCHANGED <<enabled, now, tok, erpnext, erp, last, req, look,
                   exts, cols, pop>>

\* The token responses a call-control request can consume.
TokenSeqs == ResponseSeqsOf(PlainResponses(access_token), "get_access_token",
                            Settings, now)

Callees == {<<>>, <<"a">>, <<"5", "-", "1">>}

MakeCall ==
    \E callee \in Callees : \E caller \in {"", "100"} :
    \E mapped \in {caller = ""} \cup {FALSE} :
    \E rs \in TokenSeqs : \E r \in CallResponses \ {"interface"} :
    \E k \in {make_call(NewOp(Settings, rows), callee, caller, mapped,
                        enabled, rs, now, r)} :
        Finish("make_call", k)

AnswerCall ==
    \E call_id \in CallIds \cup {NoId} : \E channel_id \in {"", "ch"} :
    \E rs \in TokenSeqs : \E r1 \in CallResponses :
    \E r2 \in CallResponses \ {"interface"} :
    \E k \in {answer_call(NewOp(Settings, rows), call_id, channel_id,
                          enabled, rs, now, r1, r2)} :
        Finish("answer_call", k)

HangupCall ==
    \E call_id \in CallIds \cup {NoId} :
    \E rs \in TokenSeqs : \E r \in CallResponses \ {"interface"} :
    \E k \in {hangup_call(NewOp(Settings, rows), call_id, enabled, rs, now, r)} :
        Finish("hangup_call", k)

GetWebrtcSignature ==
    \E creds \in BOOLEAN : \E mapped \in BOOLEAN :
    \E r1 \in SignResponses : \E r2 \in SignResponses :
    \E k \in {get_webrtc_signature(NewOp(Settings, rows), enabled, creds,
                                   mapped, r1, r2)} :
        Finish("get_webrtc_signature", k)

AuthGetAccessToken ==
    \E permitted \in BOOLEAN : \E rs \in TokenSeqs :
    \E k \in {auth_get_access_token(NewOp(Settings, rows), permitted,
                                    enabled, rs, now)} :
        Finish("auth.get_access_token", k)

\* PBXSettings.get_access_token called on the settings document.
SettingsGetAccessToken ==
    \E rs \in TokenSeqs :
    \E k \in {settings_get_access_token(NewOp(Settings, rows), enabled, rs,
                                        now)} :
        Finish("PBXSettings.get_access_token", k)

\* An incoming call rings: the webhook creates its call logs.
RingingCalls ==
    { Legacy("Ringing", d) :
        d \in { f \in RingingFields : f.call_id # NoId /\ f.caller # "" } }

CallArrives == \E p \in RingingCalls : Receive(p)

\* The time it takes a token minted with the default TTL to expire.
TokenAges == Advance(DefaultExpireSeconds - SafetyMargin)

CallNext ==
    \/ MakeCall
    \/ AnswerCall
    \/ HangupCall
    \/ GetWebrtcSignature
    \/ AuthGetAccessToken
    \/ CallArrives
    \/ SetEnabled
    \/ TokenAges

-----------------------------------------------------------------------------
(* The Phone Matcher: pbx_call_log.py and api/lookup.py *)

\* None for a document name; a database field that is NULL.
None == ""
Null == <<"null">>

\* for char in [" ", "-", "(", ")", "+", "."]
FormatChars == <<" ", "-", "(", ")", "+", ".">>

\* phone.replace(char, "")
Replace(phone, char) ==
    LET Keep(x) == x # char
    IN  SelectSeq(phone, Keep)

RECURSIVE ReplaceAll(_, _, _)
\* The loop of normalize_phone from its i-th character on.
ReplaceAll(phone, chars, i) ==
    IF i > Len(chars)
    THEN phone
    ELSE ReplaceAll(Replace(phone, chars[i]), chars, i + 1)

\* normalize_phone without the "." in its list.
normalize_phone_NoDot(phone) ==
    ReplaceAll(phone, SubSeq(FormatChars, 1, 5), 1)

\* PBXCallLog.normalize_phone
normalize_phone(phone) ==
    IF phone = <<>> THEN <<>> ELSE ReplaceAll(phone, FormatChars, 1)

\* The 10 of phone[-10:]
KeyLength == 10

\* phone[-10:]: the slice from max(len - 10, 0) to the end.
MatchKey(phone) ==
    LET from == IF Len(phone) - KeyLength > 0 THEN Len(phone) - KeyLength ELSE 0
    IN  SubSeq(phone, from + 1, Len(phone))

\* value LIKE '%key%'; NULL is like nothing.
Like(value, key) ==
    /\ value # Null
    /\ \E i \in 0..(Len(value) - Len(key)) : SubSeq(value, i + 1, i + Len(key)) = key

\* frappe.db.get_value(...) returns one of the matching names, None when
\* there is none.
OneOf(names) == IF names = {} THEN {None} ELSE names

\* find_contact: the Contact Phone rows first, then Contact.phone.
find_contact(db, phone) ==
    LET byRow == { c.name : c \in { x \in db.contacts :
                        \E n \in x.phones : Like(n, MatchKey(phone)) } }
        byField == { c.name : c \in { x \in db.contacts :
                        Like(x.phone, MatchKey(phone)) } }
    IN  IF byRow # {} THEN byRow ELSE OneOf(byField)

\* find_customer: Customer.mobile_no first, then the Customer link of a
\* Contact whose Contact Phone matches.
find_customer(db, phone) ==
    LET byField == { c.name : c \in { x \in db.customers :
                        Like(x.mobile_no, MatchKey(phone)) } }
        byLink == UNION { { c.links[i].link_name :
                              i \in { j \in 1..Len(c.links) :
                                        c.links[j].link_doctype = "Customer" } } :
                            c \in { x \in db.contacts :
                                \E n \in x.phones : Like(n, MatchKey(phone)) } }
    IN  IF byField # {} THEN byField ELSE OneOf(byLink)

\* find_lead: Lead.mobile_no first, then Lead.phone.
find_lead(db, phone) ==
    LET byMobile == { l.name : l \in { x \in db.leads :
                        Like(x.mobile_no, MatchKey(phone)) } }
        byPhone == { l.name : l \in { x \in db.leads :
                        Like(x.phone, MatchKey(phone)) } }
    IN  IF byMobile # {} THEN byMobile ELSE OneOf(byPhone)

\* The result dict of lookup_phone_number, with the doctypes it queried.
NewResult(phone_number) ==
    [phone |-> phone_number, found |-> FALSE, customer |-> None, lead |-> None,
     contact |-> None, error |-> FALSE, raised |-> FALSE, consulted |-> {},
     normalized |-> <<>>, key |-> <<>>]

\* for link in contact.links: every link of the doctype is assigned in turn,
\* so the last one stays.
Linked(db, contact, doctype) ==
    LET c == CHOOSE x \in db.contacts : x.name = contact
        at == { i \in 1..Len(c.links) : c.links[i].link_doctype = doctype }
    IN  IF at = {}
        THEN None
        ELSE c.links[CHOOSE i \in at : \A j \in at : j <= i].link_name

\* lookup_phone_number asking the Customer table before the Contact table.
lookup_phone_number_CustomerFirst(db, phone_number) ==
    LET normalized == normalize_phone(phone_number)
        r0 == [NewResult(phone_number) EXCEPT !.normalized = normalized,
                                              !.key = MatchKey(normalized)]
        r1 == [r0 EXCEPT !.consulted = {"Customer"}]
        r2 == [r0 EXCEPT !.consulted = {"Customer", "Contact"}]
        r3 == [r0 EXCEPT !.consulted = {"Customer", "Contact", "Lead"}]
    IN  UNION { IF customer # None
                THEN { [r1 EXCEPT !.found = TRUE, !.customer = customer] }
                ELSE UNION { IF contact # None
                             THEN { [r2 EXCEPT !.found = TRUE,
                                        !.contact = contact,
                                        !.customer = Linked(db, contact, "Customer"),
                                        !.lead = Linked(db, contact, "Lead")] }
                             ELSE { IF lead # None
                                    THEN [r3 EXCEPT !.found = TRUE, !.lead = lead]
                                    ELSE r3 :
                                    lead \in find_lead(db, normalized) } :
                             contact \in find_contact(db, normalized) } :
                customer \in find_customer(db, normalized) }

\* lookup_phone_number: Contact, then Customer, then Lead; the first hit is
\* returned. The set holds the results the unordered queries allow.
lookup_phone_number(db, phone_number) ==
    LET normalized == normalize_phone(phone_number)
        r0 == [NewResult(phone_number) EXCEPT !.normalized = normalized,
                                              !.key = MatchKey(normalized)]
        r1 == [r0 EXCEPT !.consulted = {"Contact"}]
        r2 == [r0 EXCEPT !.consulted = {"Contact", "Customer"}]
        r3 == [r0 EXCEPT !.consulted = {"Contact", "Customer", "Lead"}]
    IN  UNION { IF contact # None
                THEN { [r1 EXCEPT !.found = TRUE, !.contact = contact,
                                  !.customer = Linked(db, contact, "Customer"),
                                  !.lead = Linked(db, contact, "Lead")] }
                ELSE UNION { IF customer # None
                             THEN { [r2 EXCEPT !.found = TRUE,
                                               !.customer = customer] }
                             ELSE { IF lead # None
                                    THEN [r3 EXCEPT !.found = TRUE, !.lead = lead]
                                    ELSE r3 :
                                    lead \in find_lead(db, normalized) } :
                             customer \in find_customer(db, normalized) } :
                contact \in find_contact(db, normalized) }

\* The loop of lookup_and_link over contact.links from the i-th link on: a
\* Customer link is stored and ends the loop (break), a Lead link met before
\* that is stored.
RECURSIVE LinkLoop(_, _, _)
LinkLoop(links, i, doc) ==
    IF i > Len(links)
    THEN doc
    ELSE IF links[i].link_doctype = "Customer"
    THEN [doc EXCEPT !.customer = links[i].link_name]
    ELSE IF links[i].link_doctype = "Lead"
    THEN LinkLoop(links, i + 1, [doc EXCEPT !.lead = links[i].link_name])
    ELSE LinkLoop(links, i + 1, doc)

\* PBXCallLog.lookup_and_link: nothing for an empty number; else Contact,
\* then Customer, then Lead. The linked_contact, linked_customer and
\* linked_lead it stores on the row are the contact, customer and lead fields
\* of the record; the set holds what the unordered queries allow.
lookup_and_link(db, phone_number) ==
    LET normalized == normalize_phone(phone_number)
        r0 == [NewResult(phone_number) EXCEPT !.normalized = normalized,
                                              !.key = MatchKey(normalized)]
        r1 == [r0 EXCEPT !.consulted = {"Contact"}]
        r2 == [r0 EXCEPT !.consulted = {"Contact", "Customer"}]
        r3 == [r0 EXCEPT !.consulted = {"Contact", "Customer", "Lead"}]
    IN  IF phone_number = <<>>
        THEN { NewResult(phone_number) }
        ELSE UNION {
            IF contact # None
            THEN { LinkLoop((CHOOSE x \in db.contacts : x.name = contact).links,
                            1, [r1 EXCEPT !.contact = contact]) }
            ELSE UNION { IF customer # None
                         THEN { [r2 EXCEPT !.customer = customer] }
                         ELSE { IF lead # None
                                THEN [r3 EXCEPT !.lead = lead]
                                ELSE r3 :
                                lead \in find_lead(db, normalized) } :
                         customer \in find_customer(db, normalized) } :
            contact \in find_contact(db, normalized) }

\* by_phone without its test for an empty phone number.
by_phone_NoEmptyCheck(db, phone_number) == lookup_phone_number(db, phone_number)

\* api/lookup.py by_phone: an empty phone number is answered at once; the
\* display names it adds to a result are left out.
by_phone(db, phone_number) ==
    IF phone_number = <<>>
    THEN { [NewResult(phone_number) EXCEPT !.error = TRUE] }
    ELSE lookup_phone_number(db, phone_number)

\* Stored phone numbers.
Num10 == <<"5", "5", "5", "1", "2", "3", "4", "5", "6", "7">>
Num11 == <<"1">> \o Num10
NumOther == <<"4", "4", "4", "0", "0", "0", "9", "9", "9", "9">>

\* The Contact, Customer and Lead documents the databases are made of.
ContactDocs ==
    { [name |-> "CT-ROW", phones |-> {Num11}, phone |-> Null,
       links |-> <<[link_doctype |-> "Customer", link_name |-> "CU-LINKED"],
                   [link_doctype |-> "Lead", link_name |-> "LD-LINKED"]>>],
      [name |-> "CT-FIELD", phones |-> {}, phone |-> Num10,
       links |-> <<>>],
      [name |-> "CT-OTHER", phones |-> {NumOther}, phone |-> Null,
       links |-> <<[link_doctype |-> "Lead", link_name |-> "LD-OTHER"]>>] }

CustomerDocs ==
    { [name |-> "CU-A", mobile_no |-> Num10],
      [name |-> "CU-OTHER", mobile_no |-> NumOther] }

LeadDocs ==
    { [name |-> "LD-MOBILE", mobile_no |-> Num11, phone |-> Null],
      [name |-> "LD-PHONE", mobile_no |-> Null, phone |-> Num10] }

\* The databases looked into: any contacts, no or all customers, and no
\* leads, the lead matched by its phone field only, or all leads.
Databases ==
    [contacts : SUBSET ContactDocs, customers : {{}, CustomerDocs},
     leads : {{}, { l \in LeadDocs : l.mobile_no = Null }, LeadDocs}]

\* "+1 (555) 123-4567"
ExamplePhone ==
    <<"+", "1", " ", "(", "5", "5", "5", ")", " ", "1", "2", "3", "-",
      "4", "5", "6", "7">>

\* The phone numbers looked up.
Phones ==
    { <<>>, ExamplePhone, Num10, <<"0", "0">> \o Num11,
      <<"5", "5", "5", ".", "1", "2", "3", ".", "4", "5", "6", "7">>,
      <<"4", "5", "6", "7">>, <<"(", ")">>, <<"7", "7">>,
      <<"x", "4", "5", "-", "6", "7">> }

NoLookup ==
    [op |-> "none", db |-> [contacts |-> {}, customers |-> {}, leads |-> {}],
     result |-> NewResult(<<>>)]

\* lookup_phone_number called by the screen pop.
LookupPhoneNumber ==
    /\ \E db \in Databases : \E phone_number \in Phones :
       \E result \in lookup_phone_number(db, phone_number) :
           look' = [op |-> "lookup_phone_number", db |-> db, result |-> result]
    /\ UNCHANGED <<tokenVars, hookVars, call, exts, cols, pop>>

\* The whitelisted by_phone endpoint.
ByPhone ==
    /\ \E db \in Databases : \E phone_number \in Phones :
       \E result \in by_phone(db, phone_number) :
           look' = [op |-> "by_phone", db |-> db, result |-> result]
    /\ UNCHANGED <<tokenVars, hookVars, call, exts, cols, pop>>

LookupNext == LookupPhoneNumber \/ ByPhone

\* PBXCallLog.before_insert on a new row: lookup_and_link on its number.
LookupAndLink ==
    /\ \E db \in Databases : \E phone_number \in Phones :
       \E result \in lookup_and_link(db, phone_number) :
           look' = [op |-> "lookup_and_link", db |-> db, result |-> result]
    /\ UNCHANGED <<tokenVars, hookVars, call, exts, cols, pop>>

LinkNext == LookupAndLink

HookInit ==
    /\ rows = <<>>
    /\ erpnext \in BOOLEAN
    /\ erp = {}
    /\ last = NoRequest
    /\ req = [w \in Workers |-> Idle]
    /\ call = NoOp
    /\ look = NoLookup
    /\ exts = {}
    /\ cols = <<>>
    /\ pop = NoPop

TokenInit ==
    /\ enabled = FALSE
    /\ access_token = NoToken
    /\ refresh_token = NoToken
    /\ token_expiry = NoExpiry
    /\ now = 0
    /\ tok = NoTok

Init == TokenInit /\ HookInit

TokenNext ==
    \/ GetAccessToken
    \/ TestConnection
    \/ SetEnabled
    \/ Tick

TokenSpec == Init /\ [][TokenNext]_vars

\* The webhook endpoint, one request after another.
Next == Webhook

Spec == Init /\ [][Next]_vars

\* Two completed-call deliveries in flight at once.
RaceSpec == Init /\ [][RaceNext]_vars

\* The webhook endpoint with failing Frappe calls.
FaultSpec == Init /\ [][FaultNext]_vars

\* The call-control endpoints, with incoming calls and the clock.
CallSpec == Init /\ [][CallNext]_vars

\* Every operation that talks to the vendor, with the enabled flag switched
\* on and off in between.
ControlNext ==
    \/ MakeCall
    \/ AnswerCall
    \/ HangupCall
    \/ GetWebrtcSignature
    \/ AuthGetAccessToken
    \/ SettingsGetAccessToken
    \/ SetEnabled

ControlSpec == Init /\ [][ControlNext]_vars

\* The Phone Matcher on every database and phone number of the fixtures.
LookupSpec == Init /\ [][LookupNext]_vars

\* The matcher of new call-log rows on every database and phone number of the
\* fixtures.
LinkSpec == Init /\ [][LinkNext]_vars

\* The webhook endpoint on every column, with the extension mappings edited.
DetailSpec == Init /\ [][DetailNext]_vars

\* The ringing events of the webhook endpoint, with the extension mappings
\* edited in between.
PopSpec == Init /\ [][PopNext]_vars

-----------------------------------------------------------------------------
(* Properties of the token lifecycle *)

\* The refresh call of the last get_access_token invocation failed: a refresh
\* request was sent first and ended in a transport error or errcode != 0.
RefreshCallFailed ==
    /\ tok.op = "get_access_token"
    /\ ~tok.thrown
    /\ Len(tok.reqs) >= 1
    /\ tok.reqs[1] = "refresh_token"
    /\ tok.outs[1] \in {"transport", "errcode"}

\* C1: when get_access_token ran with no valid cached token and a refresh
\* token, and the refresh call failed, exactly one authenticate (get_token)
\* request was sent during the invocation, whether it succeeded or failed.
C1_ExactlyOneAuthenticate ==
    RefreshCallFailed => Requests(tok, "get_token") = 1

\* C2: with the integration enabled and a cached access token whose
\* token_expiry is strictly later than now, get_access_token returns the stored
\* access token, sends no request, and leaves access token, refresh token and
\* expiry as they were.
C2_CachedTokenReturned ==
    [][ ( /\ enabled
          /\ access_token # NoToken
          /\ token_expiry # NoExpiry
          /\ token_expiry[1] > now
          /\ GetAccessToken )
        => ( /\ tok'.ret = access_token
             /\ tok'.reqs = <<>>
             /\ ~tok'.thrown
             /\ UNCHANGED <<access_token, refresh_token, token_expiry>> ) ]_vars

\* C2: a get_access_token invocation was answered from the cache.
C2_CacheHit ==
    /\ tok.op = "get_access_token"
    /\ tok.hit
    /\ tok.reqs = <<>>
    /\ tok.ret = access_token
    /\ tok.ret # NoToken
    /\ token_expiry[1] > now

\* C3: whenever get_access_token returns a non-null token, the token_expiry
\* stored for it is strictly later than the time of the return, on every path
\* and for every access_token_expire_time the vendor reports.
C3_ReturnedTokenNotExpired ==
    [][ (GetAccessToken /\ tok'.ret # NoToken)
        => (token_expiry' # NoExpiry /\ now' < token_expiry'[1]) ]_vars

\* A step of get_access_token: the only action that records this operation
\* and leaves the clock and the enabled flag alone.
GetAccessTokenStep ==
    tok'.op = "get_access_token" /\ now' = now /\ enabled' = enabled

\* A step that ran _authenticate or get_access_token.
TokenStep ==
    tok'.op \in {"get_access_token", "test_connection"}
    /\ now' = now /\ enabled' = enabled

\* The last request of the invocation just made, and how it ended.
LastOut(t) == IF t.outs = <<>> THEN "none" ELSE t.outs[Len(t.outs)]

\* C12: when the vendor call that decides a get_access_token invocation (the
\* last one it sends) fails by transport or by errcode != 0, the invocation
\* returns null; a non-null token is returned only after a cache hit or a
\* response with errcode 0 in that invocation.
C12_FailureYieldsNull ==
    [][ (GetAccessTokenStep /\ ~tok'.thrown)
        => ( /\ (LastOut(tok') \in {"transport", "errcode"}) => tok'.ret = NoToken
             /\ tok'.ret # NoToken
                  => (tok'.hit \/ \E i \in 1..Len(tok'.outs) : tok'.outs[i] = "ok") ) ]_vars

\* C12: an invocation whose last request failed returned null although a stale
\* access token was still stored.
C12_NullDespiteStoredToken ==
    /\ tok.op = "get_access_token"
    /\ ~tok.thrown
    /\ LastOut(tok) \in {"transport", "errcode"}
    /\ tok.ret = NoToken
    /\ access_token # NoToken

\* C15: after a mint or refresh answered with errcode 0, the stored expiry is
\* the time of saving plus the reported TTL (1800 when absent) minus 300, and
\* the stored access and refresh tokens are those of that response.
C15_ExpiryIsTtlMinusMargin ==
    [][ (TokenStep /\ tok'.saved.kind = "ok")
        => LET r == tok'.saved
               ttl == IF r.access_token_expire_time = <<>>
                      THEN 1800 ELSE r.access_token_expire_time[1]
           IN  /\ token_expiry' = <<now + ttl - 300>>
               /\ access_token' = r.access_token
               /\ refresh_token' = r.refresh_token ]_vars

\* C15: a response with an explicit TTL of 600 was saved at a time after 0.
C15_SavedWithReportedTtl ==
    /\ tok.saved.kind = "ok"
    /\ tok.saved.access_token_expire_time = <<600>>
    /\ now > 0
    /\ token_expiry = <<now + 300>>
    /\ access_token = tok.saved.access_token

\* C16: with no valid cached token, the refresh endpoint is called first
\* exactly when a refresh token is stored; a refresh that succeeds (errcode 0
\* with a token) is followed by no authenticate request and its token, refresh
\* token and expiry are cached; without a refresh token no refresh request and
\* exactly one authenticate request is sent.
C16_RefreshFirstIffStored ==
    [][ (GetAccessTokenStep /\ enabled /\ ~CacheValid(Settings, now))
        => LET t == tok'
           IN  /\ t.reqs # <<>>
               /\ (t.reqs[1] = "refresh_token") <=> (refresh_token # NoToken)
               /\ (refresh_token # NoToken /\ t.outs[1] = "ok"
                     /\ t.got[1] # NoToken)
                  => ( /\ t.reqs = <<"refresh_token">>
                       /\ t.ret = t.got[1]
                       /\ access_token' = t.saved.access_token
                       /\ refresh_token' = t.saved.refresh_token
                       /\ token_expiry' # NoExpiry )
               /\ (refresh_token = NoToken)
                  => ( /\ Requests(t, "refresh_token") = 0
                       /\ Requests(t, "get_token") = 1 ) ]_vars

\* C16: an expired token was replaced through the refresh endpoint alone.
C16_RefreshedWithoutAuthenticate ==
    /\ tok.op = "get_access_token"
    /\ tok.hadRefresh
    /\ ~tok.hit
    /\ tok.reqs = <<"refresh_token">>
    /\ tok.ret # NoToken
    /\ tok.ret = access_token

-----------------------------------------------------------------------------
(* Properties of the webhook *)

\* This step is the request that serves payload p. (The first two conjuncts
\* follow from Receive(p); they spare its evaluation for most payloads.)
Served(p) ==
    /\ last'.h = Route(p)
    /\ last'.cid = HandlerCallId(p)
    /\ Receive(p)

\* The completed-call deliveries: type 30012 with a parsed msg, legacy NewCdr.
CompletedCallPayloads ==
    { p \in Payloads : /\ Route(p) \in {"handle_yeastar_cdr", "handle_new_cdr"}
                       /\ p.msgKind = "object" }

CompletedCallHandlers == {"handle_yeastar_cdr", "handle_new_cdr"}

\* The rows of a table with a call id.
RowsOf(table, c) == Cardinality(Matching(table, c))

\* C4: a completed-call event (type 30012 or NewCdr) for a call id without a
\* row reports 'Call log created' and leaves exactly one row for the call id;
\* delivered again right after, it reports 'Call log updated', inserts nothing,
\* writes its status to the existing row, and exactly one row remains.
C4_SecondDeliveryUpdates ==
    [][ \A p \in CompletedCallPayloads :
          LET c == HandlerCallId(p)
          IN  /\ (c # NoId /\ RowsOf(rows, c) = 0 /\ Served(p))
                 => (last'.message = "Call log created" /\ RowsOf(rows', c) = 1)
              /\ ( /\ c # NoId
                   /\ last.h \in CompletedCallHandlers
                   /\ last.cid = c
                   /\ last.message = "Call log created"
                   /\ Served(p) )
                 => ( /\ last'.message = "Call log updated"
                      /\ last'.status = "ok"
                      /\ Len(rows') = Len(rows)
                      /\ RowsOf(rows', c) = 1
                      /\ \A i \in Matching(rows', c) :
                            /\ rows'[i].duration = p.d.duration
                            /\ rows'[i].status \in
                                   {p.d.status, "Answered",
                                    new_cdr_status(p.d.status, p.d.duration)} )
      ]_vars

\* C4: a completed-call delivery has updated the one row of its call id.
C4_UpdatedInPlace ==
    /\ last.h \in CompletedCallHandlers
    /\ last.cid # NoId
    /\ last.message = "Call log updated"
    /\ RowsOf(rows, last.cid) = 1
    /\ Len(rows) = 1

\* C5: no lock and no conditional insert: a completed-call request whose
\* existence check found nothing inserts a row for its call id when it gets to
\* write, whatever the other request has written to the table since the check.
C5_NotFoundThenInsert ==
    [][ \A w \in Workers :
          (req[w].pc = "checked" /\ req[w].existing = 0 /\ CdrWrite(w))
          => ( /\ Len(rows') = Len(rows) + 1
               /\ rows'[Len(rows')].call_id = HandlerCallId(req[w].p)
               /\ req'[w].message = "Call log created" ) ]_vars

\* C5: both requests checked before either inserted, both found nothing, both
\* inserted: two rows with the same call id.
C5_DuplicateRows ==
    \E c \in CallIds :
        /\ RowsOf(rows, c) = 2
        /\ \A w \in Workers :
              /\ req[w].pc = "done"
              /\ req[w].existing = 0
              /\ HandlerCallId(req[w].p) = c
              /\ req[w].message = "Call log created"

\* C6: events served one after another leave at most one PBX Call Log row per
\* non-empty call id.
C6_AtMostOneRowPerCallId ==
    \A c \in CallIds : RowsOf(rows, c) <= 1

\* The handlers of the call events.
CallEventHandlers ==
    {"handle_yeastar_cdr", "handle_new_cdr", "handle_yeastar_call_status",
     "handle_call_status", "handle_ringing", "handle_answer", "handle_hangup"}

\* The handlers that create a row when there is none.
CreatingHandlers == {"handle_yeastar_cdr", "handle_new_cdr", "handle_ringing"}

TypedPayloads ==
    { p \in Payloads : p.body = "json" /\ p.type.kind \in {"int", "str"} }

\* C8 as claimed: every payload whose type is 30012 goes to handle_yeastar_cdr
\* and every payload whose type is 30011 to handle_yeastar_call_status, whether
\* the type is a number or a string and with or without a msg field.
C8_TypeRoutesAlways ==
    [][ \A p \in TypedPayloads :
          Served(p)
          => /\ p.type.val = TypeCdr => last'.h = "handle_yeastar_cdr"
             /\ p.type.val = TypeCallStatus
                => last'.h = "handle_yeastar_call_status" ]_vars

\* C8 as amended: a JSON object whose type is the number 30012 and whose msg
\* field is a string goes to handle_yeastar_cdr, with the number 30011 to
\* handle_yeastar_call_status; a type that arrives as a string, or a payload
\* without msg, reaches neither handler.
C8_NumericTypeWithMsgRoutes ==
    [][ \A p \in TypedPayloads :
          Served(p)
          => /\ ( /\ p.type.kind = "int"
                  /\ p.hasMsg
                  /\ p.msgKind # "nonstring" )
                => /\ p.type.val = TypeCdr => last'.h = "handle_yeastar_cdr"
                   /\ p.type.val = TypeCallStatus
                      => last'.h = "handle_yeastar_call_status"
             /\ (p.type.kind = "str" \/ ~p.hasMsg)
                => last'.h \notin {"handle_yeastar_cdr",
                                   "handle_yeastar_call_status"} ]_vars

\* C8: a type 30012 payload was served by handle_yeastar_cdr.
C8_CdrDispatched ==
    /\ last.h = "handle_yeastar_cdr"
    /\ last.message \in {"Call log created", "Call log updated"}

\* The event names receive handles in the legacy format.
HandledEvents ==
    {"NewCdr", "CallStatus", "ExtensionStatus", "Ringing", "answer", "hangup",
     "HANGUP"}

\* An unrecognized event: a new envelope (a type and a string msg) whose
\* numeric type is neither 30011 nor 30012, or a payload routed by its event
\* name whose name is not a handled one.
Unrecognized(p) ==
    /\ p.body = "json"
    /\ \/ /\ p.type.kind = "int"
          /\ p.type.val \notin {0, TypeCdr, TypeCallStatus}
          /\ p.hasMsg
          /\ p.msgKind # "nonstring"
       \/ /\ ~(p.type.kind # "absent" /\ p.type.val # 0 /\ p.hasMsg)
          /\ p.event \notin HandledEvents

\* C9: an unrecognized event type is acknowledged with status 'ok' and is
\* otherwise ignored: no call-log row created or modified, no phone lookup, no
\* screen-pop notification.
C9_UnrecognizedIgnored ==
    [][ \A p \in { q \in Payloads : Unrecognized(q) } :
          Served(p)
          => /\ last'.status = "ok"
             /\ rows' = rows
             /\ erp' = erp
             /\ last'.lookups = 0
             /\ last'.pops = 0 ]_vars

\* C9: an unknown type was acknowledged with call logs in the table.
C9_UnknownTypeAcknowledged ==
    /\ last.h = "unhandled_type"
    /\ last.status = "ok"
    /\ last.lookups = 0
    /\ last.pops = 0
    /\ Len(rows) >= 1

\* A malformed payload: the body is not valid JSON, or the msg of a new
\* envelope is not a valid JSON string.
Malformed(p) ==
    \/ p.body = "invalid"
    \/ /\ p.body = "json"
       /\ p.type.kind = "int"
       /\ p.type.val # 0
       /\ p.hasMsg
       /\ p.msgKind \in {"invalid", "nonstring"}

\* C10: a malformed payload is acknowledged with status 'ok', not 'error', and
\* creates or changes no call-log row.
C10_MalformedAcknowledged ==
    [][ \A p \in { q \in Payloads : Malformed(q) } :
          Served(p)
          => (last'.status = "ok" /\ rows' = rows) ]_vars

\* C11: receive never propagates an exception: whatever the payload and
\* wherever a Frappe call raises inside the routed handler (handle_ringing,
\* handle_answer, handle_hangup and the screen pop included), the request ends
\* with a returned result whose status is 'ok' or 'error'.
C11_ReceiveAlwaysReturns ==
    last.status \in {"ok", "error"}

\* C11: an exception inside handle_ringing, handle_answer or handle_hangup,
\* which have no handler of their own, was turned into an 'error' result.
C11_HandlerFaultContained ==
    /\ last.h \in {"handle_ringing", "handle_answer", "handle_hangup"}
    /\ last.status = "error"
    /\ last.message = "exception"

-----------------------------------------------------------------------------
(* Properties of the call-control endpoints *)

\* A call-control request was served in this step.
Served_Call(ops) == call' # call /\ call'.op \in ops

CallOps == {"make_call", "answer_call", "hangup_call"}

\* C13: in make_call, answer_call and hangup_call a null token is a hard
\* failure: the result has success = false, nothing is sent to the dial, answer
\* or hangup endpoint, and no call-log status changes.
C13_NullTokenIsHardFailure ==
    [][ (Served_Call(CallOps) /\ call'.token = "null")
        => ( /\ ~call'.success
             /\ ~call'.raised
             /\ call'.reqs = <<>>
             /\ call'.updates = <<>>
             /\ rows' = rows ) ]_vars

\* C13: answer_call was refused for want of a token while the call had a log.
C13_AnswerRefusedWithoutToken ==
    /\ call.op = "answer_call"
    /\ call.token = "null"
    /\ call.message = "Failed to authenticate with PBX"
    /\ ~call.success
    /\ \E i \in 1..Len(rows) : rows[i].call_id \in CallIds

\* How the last request to a vendor endpoint of a call-control request ended.
LastCallOut(k) == IF k.outs = <<>> THEN "none" ELSE k.outs[Len(k.outs)]

\* C14 as claimed: every whitelisted operation (make_call, answer_call,
\* hangup_call, get_webrtc_signature, auth.get_access_token, webhook.receive)
\* ends a failed invocation with a returned result, never with an exception
\* raised to the caller.
C14_NoOperationRaises ==
    ~call.raised /\ last.status \in {"ok", "error"}

\* C14 as amended: make_call, answer_call, hangup_call and
\* get_webrtc_signature return a result with success = false after a disabled
\* integration, a null token, a transport failure or a vendor error, and
\* receive returns a status; auth.get_access_token raises (frappe.throw) when
\* the integration is disabled or no token was obtained, and returns the token
\* otherwise.
C14_FailuresReturnedExceptAuth ==
    [][ /\ Served_Call(CallOps \cup {"get_webrtc_signature"})
           => ( /\ ~call'.raised
                /\ ( \/ ~enabled
                     \/ call'.token = "null"
                     \/ LastCallOut(call') \in {"transport", "errcode",
                                                "interface", "empty"} )
                   => ~call'.success )
        /\ Served_Call({"auth.get_access_token"})
           => ( /\ (~enabled \/ call'.token = "null") => call'.raised
                /\ call'.raised <=> ~call'.success
                /\ call'.success => call'.token = "ok" )
        /\ last'.status \in {"ok", "error"} ]_vars

\* C14: make_call met a transport failure at the dial request and returned it.
C14_TransportFailureReturned ==
    /\ call.op = "make_call"
    /\ call.outs = <<"transport">>
    /\ ~call.success
    /\ ~call.raised
    /\ call.message = "Failed to connect to PBX"

\* C17 as claimed: each of make_call, answer_call and hangup_call sends at most
\* one request to its call endpoint per invocation.
C17_AtMostOneCallRequest ==
    call.op \in CallOps => Len(call.reqs) <= 1

\* C17 as amended: make_call and hangup_call send at most one request to their
\* call endpoint; answer_call sends at most two, the second only after the
\* first was answered with an "INTERFACE NOT EXISTED" error and a channel_id
\* had been given.
C17_OnlyAnswerRetriesOnce ==
    /\ call.op \in {"make_call", "hangup_call"} => Len(call.reqs) <= 1
    /\ call.op = "answer_call"
       => ( /\ Len(call.reqs) <= 2
            /\ Len(call.reqs) = 2
               => (call.outs[1] = "interface" /\ call.channel_id # "") )

\* C17: answer_call sent the answer request twice and the retry succeeded.
C17_AnswerRetried ==
    /\ call.op = "answer_call"
    /\ call.reqs = <<"answer", "answer">>
    /\ call.outs = <<"interface", "ok">>
    /\ call.success

-----------------------------------------------------------------------------
(* The Phone Matcher's properties *)

\* The phone number with every formatting character left out.
Stripped(phone) ==
    LET Kept(x) == x \notin {" ", "-", "(", ")", "+", "."}
    IN  SelectSeq(phone, Kept)

\* The last 10 characters of a string, the whole string when it is shorter.
LastTen(str) ==
    IF Len(str) < 10 THEN str ELSE SubSeq(str, Len(str) - 9, Len(str))

\* The Contacts, Customers and Leads with a number that contains the key.
ContactMatches(db, key) ==
    { c \in db.contacts : Like(c.phone, key) \/ \E n \in c.phones : Like(n, key) }

CustomerMatches(db, key) == { c \in db.customers : Like(c.mobile_no, key) }

LeadMatches(db, key) ==
    { l \in db.leads : Like(l.mobile_no, key) \/ Like(l.phone, key) }

\* The names a contact links to under a doctype.
LinkNames(c, doctype) ==
    { c.links[i].link_name :
        i \in { j \in 1..Len(c.links) : c.links[j].link_doctype = doctype } }

\* A lookup ran: lookup_phone_number, or by_phone past its empty test.
Looked ==
    \/ look.op = "lookup_phone_number"
    \/ look.op = "by_phone" /\ look.result.phone # <<>>

\* C18: lookup_phone_number searches Contact, then Customer, then Lead and
\* returns the first hit: when a Contact matches, the result carries a
\* matching Contact with its linked Customer, and neither the Customer nor the
\* Lead table is consulted, whatever else matches; a Customer-only result
\* needs that no Contact matches, a Lead-only result that neither a Contact
\* nor a Customer matches.
C18_ContactThenCustomerThenLead ==
    look.op = "lookup_phone_number" =>
        LET r == look.result
            key == LastTen(Stripped(r.phone))
            contacts == ContactMatches(look.db, key)
            customers == CustomerMatches(look.db, key)
            leads == LeadMatches(look.db, key)
        IN  /\ contacts # {} =>
                /\ r.found
                /\ r.consulted = {"Contact"}
                /\ \E c \in contacts :
                    /\ r.contact = c.name
                    /\ IF LinkNames(c, "Customer") = {}
                       THEN r.customer = None
                       ELSE r.customer \in LinkNames(c, "Customer")
            /\ (contacts = {} /\ customers # {}) =>
                /\ r.found /\ r.contact = None /\ r.lead = None
                /\ r.customer \in { c.name : c \in customers }
                /\ r.consulted = {"Contact", "Customer"}
            /\ (contacts = {} /\ customers = {} /\ leads # {}) =>
                /\ r.found /\ r.contact = None /\ r.customer = None
                /\ r.lead \in { l.name : l \in leads }
            /\ (r.contact = None /\ r.customer # None) => contacts = {}
            /\ (r.contact = None /\ r.customer = None /\ r.lead # None) =>
                contacts = {} /\ customers = {}

\* A Contact, a Customer and a Lead all match the example number, and the
\* result is the Contact with the Customer it links to.
C18_ContactWinsOverCustomer ==
    /\ look.op = "lookup_phone_number"
    /\ look.result.phone = ExamplePhone
    /\ CustomerMatches(look.db, Num10) # {}
    /\ LeadMatches(look.db, Num10) # {}
    /\ look.result.contact = "CT-ROW"
    /\ look.result.customer = "CU-LINKED"
    /\ look.result.consulted = {"Contact"}

\* C19: normalize_phone removes every space, '-', '(', ')', '+' and '.' and
\* nothing else, so that "+1 (555) 123-4567" becomes "15551234567"; the key
\* of every Contact, Customer and Lead match is the last 10 characters of
\* the normalized string, the whole string when it is shorter, so that a
\* lookup finds something exactly when a stored number contains that key.
C19_NormalizedAndKeyedByLastTen ==
    Looked =>
        LET r == look.result
            key == LastTen(Stripped(r.phone))
        IN  /\ r.normalized = Stripped(r.phone)
            /\ r.key = key
            /\ r.phone = ExamplePhone => r.normalized = Num11 /\ r.key = Num10
            /\ r.found <=>
                 \/ ContactMatches(look.db, key) # {}
                 \/ CustomerMatches(look.db, key) # {}
                 \/ LeadMatches(look.db, key) # {}

\* The example number is found by its last 10 digits in a Customer whose
\* number lacks the leading 1.
C19_ExampleFoundByLastTen ==
    /\ Looked
    /\ look.result.phone = ExamplePhone
    /\ look.result.normalized = Num11
    /\ look.result.key = Num10
    /\ look.db.contacts = {}
    /\ look.result.customer = "CU-A"

\* C20: when no Contact, Customer or Lead number contains the match key,
\* lookup_phone_number and by_phone return found = false with contact,
\* customer and lead all null and raise nothing; by_phone with an empty phone
\* number returns found = false and runs no lookup.
C20_NoMatchIsAResult ==
    /\ Looked =>
        LET r == look.result
            key == LastTen(Stripped(r.phone))
        IN  ( /\ ContactMatches(look.db, key) = {}
              /\ CustomerMatches(look.db, key) = {}
              /\ LeadMatches(look.db, key) = {} ) =>
                /\ ~r.found /\ ~r.raised
                /\ r.contact = None /\ r.customer = None /\ r.lead = None
    /\ (look.op = "by_phone" /\ look.result.phone = <<>>) =>
        /\ ~look.result.found /\ ~look.result.raised
        /\ look.result.consulted = {}

\* by_phone finds nothing for a number no document holds, after asking all
\* three tables of a full database.
C20_NotFoundAfterAllTables ==
    /\ look.op = "by_phone"
    /\ look.result.phone = <<"7", "7">>
    /\ look.db.contacts = ContactDocs
    /\ look.db.customers = CustomerDocs
    /\ look.db.leads = LeadDocs
    /\ ~look.result.found
    /\ look.result.consulted = {"Contact", "Customer", "Lead"}

-----------------------------------------------------------------------------
(* Properties of the call-log rows *)

\* The status values of the specification's data model.
CallLogStatuses ==
    {"Ringing", "Answered", "Missed", "Busy", "Failed", "Completed",
     "In Progress"}

\* C21: the status of every PBX Call Log row is one of Ringing, Answered,
\* Missed, Busy, Failed, Completed, In Progress, whatever status value the
\* vendor's payloads carry.
C21_StatusInVocabulary ==
    \A i \in 1..Len(rows) : rows[i].status \in CallLogStatuses

-----------------------------------------------------------------------------
(* Properties of the ringing paths and the screen pop *)

\* The last request took a ringing path: legacy Ringing, legacy CallStatus
\* with a ringing status, or type 30011 with a member whose status is RING.
RingingPath ==
    \/ Route(pop.p) = "handle_ringing"
    \/ /\ Route(pop.p) = "handle_call_status"
       /\ pop.p.d.status \in {"ringing", "Ringing", "RINGING"}
    \/ /\ Route(pop.p) = "handle_yeastar_call_status"
       /\ \E i \in 1..Len(pop.p.d.members) :
             pop.p.d.members[i].member_status = "RING"

\* C22: on every ringing path the number handed to the Phone Matcher, and the
\* number shown in the screen-pop notification, is the caller's number of
\* that call.
C22_MatcherGetsCaller ==
    RingingPath
        => /\ \A i \in 1..Len(pop.matched) : pop.matched[i] = pop.p.d.caller
           /\ \A i \in 1..Len(pop.notes) : pop.notes[i].phone = pop.p.d.caller

\* A webhook request was served: pop' is its record.
Served_Webhook == <<rows, cols, erp, pop>>' # <<rows, cols, erp, pop>>

\* The last request was an answered event: legacy answer, or type 30011 with
\* a member whose status is ANSWERED.
AnsweredEvent ==
    \/ Route(pop.p) = "handle_answer"
    \/ /\ Route(pop.p) = "handle_yeastar_call_status"
       /\ HasAnswered(pop.p.d.members)

\* C23: after an answered event for a call id with a row, the row that the
\* existence check returned has status Answered whatever it was before; the
\* event creates no row, and without a matching row no status changes.
C23_AnsweredWinsLast ==
    [][ (Served_Webhook /\ AnsweredEvent')
        => /\ Len(rows') = Len(rows)
           /\ pop'.existing # 0 => rows'[pop'.existing].status = "Answered"
           /\ pop'.existing = 0 => rows' = rows ]_vars

\* An answered event has set to Answered a row that a completed-call or
\* hangup event had closed before (its call_end is set).
C23_AnsweredAfterFinal ==
    /\ AnsweredEvent
    /\ pop.existing # 0
    /\ rows[pop.existing].status = "Answered"
    /\ cols[pop.existing].call_end # ""

\* The last request was a hangup event.
HangupEvent == Route(pop.p) = "handle_hangup"

\* C24: a hangup for a call id with a row turns the matched row's status to
\* Missed exactly when it was Ringing and leaves any other status, and sets
\* call_end and duration in both cases; a hangup without a row or without a
\* call id changes nothing.
C24_HangupMissedOnlyFromRinging ==
    [][ (Served_Webhook /\ HangupEvent')
        => IF pop'.existing # 0
           THEN /\ rows'[pop'.existing].status =
                      IF rows[pop'.existing].status = "Ringing"
                      THEN "Missed"
                      ELSE rows[pop'.existing].status
                /\ rows'[pop'.existing].duration = pop'.p.d.duration
                /\ cols'[pop'.existing].call_end = Now
           ELSE /\ pop'.p.d.call_id = NoId \/ Matching(rows, pop'.p.d.call_id) = {}
                /\ UNCHANGED <<rows, cols, erp>> ]_vars

\* A hangup has closed a row that was not ringing and left its status, next
\* to a row that an earlier hangup turned from Ringing to Missed.
C24_HangupOnBoth ==
    /\ HangupEvent
    /\ pop.existing = 2
    /\ rows[2].status = "Busy"
    /\ rows[2].duration = pop.p.d.duration
    /\ cols[2].call_end = Now
    /\ rows[1].status = "Missed"
    /\ cols[1].call_end = Now
    /\ cols[1].call_type = "Inbound"

\* The RING members of a type-30011 event, from member i on, as the
\* arguments (phone_number, extension) of their trigger_screen_pop calls.
RECURSIVE RingCalls(_, _)
RingCalls(members, i) ==
    IF i > Len(members)
    THEN <<>>
    ELSE IF members[i].member_status = "RING"
    THEN <<[phone |-> members[i].number, extension |-> members[i].number]>>
         \o RingCalls(members, i + 1)
    ELSE RingCalls(members, i + 1)

\* The trigger_screen_pop invocations of a request, in order.
ScreenPopCalls(p) ==
    CASE Route(p) = "handle_ringing" ->
            <<[phone |-> p.d.caller, extension |-> ringing_extension(p.d)]>>
      [] Route(p) = "handle_call_status"
         /\ p.d.status \in {"ringing", "Ringing", "RINGING"} ->
            <<[phone |-> p.d.caller, extension |-> p.d.ext]>>
      [] Route(p) = "handle_yeastar_call_status" /\ p.msgKind = "object" ->
            RingCalls(p.d.members, 1)
      [] OTHER -> <<>>

\* The invocations that were given a phone number.
RECURSIVE WithPhone(_)
WithPhone(calls) ==
    IF calls = <<>>
    THEN <<>>
    ELSE IF Head(calls).phone # ""
    THEN <<Head(calls)>> \o WithPhone(Tail(calls))
    ELSE WithPhone(Tail(calls))

\* A notification is addressed as the mappings say: to the user of an enabled
\* mapping of the extension, to everybody (no user) when there is none.
Addressed(note, mappings) ==
    IF \E d \in mappings : d.extension = note.extension /\ d.enabled
    THEN \E d \in mappings :
            d.extension = note.extension /\ d.enabled /\ note.user = d.user
    ELSE note.user = NoUser

\* C25: every trigger_screen_pop invocation with a phone number publishes
\* exactly one notification, to the user of the ringing extension's enabled
\* mapping or else as a broadcast; an invocation without a phone number runs
\* no lookup, creates no ERPNext Call Log and publishes nothing.
C25_OneNotificationPerScreenPop ==
    [][ Served_Webhook
        => LET calls == WithPhone(ScreenPopCalls(pop'.p))
           IN  /\ Len(pop'.notes) = Len(calls)
               /\ \A i \in 1..Len(calls) :
                     /\ pop'.notes[i].phone = calls[i].phone
                     /\ pop'.notes[i].extension = calls[i].extension
                     /\ pop'.notes[i].event \in
                            {"show_call_popup", "pbx_incoming_call"}
                     /\ Addressed(pop'.notes[i], exts)
               /\ calls = <<>>
                     => /\ pop'.matched = <<>>
                        /\ erp' = erp
                        /\ pop'.notes = <<>> ]_vars

\* One request rang two extensions: the one with an enabled mapping got its
\* notification addressed to its user, the other one was broadcast.
C25_AddressedAndBroadcast ==
    /\ Len(pop.notes) = 2
    /\ pop.notes[1].user = "agent1@example.com"
    /\ pop.notes[1].extension = "101"
    /\ pop.notes[2].user = NoUser
    /\ pop.notes[2].extension = "102"
    /\ \E d \in exts : d.extension = "102" /\ ~d.enabled

-----------------------------------------------------------------------------
(* Properties of the call-log writes of the call-control endpoints *)

\* The status answer_call and hangup_call write.
StatusWritten(op) == IF op = "answer_call" THEN "In Progress" ELSE "Completed"

\* A response with errcode 0 came back from the call endpoint.
GotErrcode0(outs) == \E i \in 1..Len(outs) : outs[i] = "ok"

-----------------------------------------------------------------------------
(* Properties of the completed-call update on every column *)

\* The last request was a completed-call event that found a row of its call
\* id: the update path of handle_yeastar_cdr or handle_new_cdr.
CompletedCallUpdate ==
    /\ Route(pop.p) \in {"handle_yeastar_cdr", "handle_new_cdr"}
    /\ pop.existing # 0

\* The columns a completed-call update may write besides status and
\* duration: has_recording and recording_url, and call_end on the legacy path.
FrameOf(old, new, h) ==
    [new EXCEPT !.has_recording = old.has_recording,
                !.recording_url = old.recording_url,
                !.call_end = IF h = "handle_new_cdr" THEN old.call_end ELSE @]

-----------------------------------------------------------------------------
(* Properties of failed token acquisitions and of the disabled integration *)

\* Some response of the invocation had errcode 0.
TokenErrcode0(t) == \E i \in 1..Len(t.outs) : t.outs[i] = "ok"

\* C28: when no response with errcode 0 is received during a
\* get_access_token or test_connection invocation, the stored access token,
\* refresh token and token_expiry are the same after it as before.
C28_FailedAcquisitionKeepsTokens ==
    [][ (TokenStep /\ ~TokenErrcode0(tok'))
        => UNCHANGED <<access_token, refresh_token, token_expiry>> ]_vars

\* get_access_token failed on its refresh and on both authentications that
\* follow while an expired token and a refresh token were stored, and both are
\* still there.
C28_FailedWithStoredTokens ==
    /\ tok.op = "get_access_token"
    /\ tok.outs = <<"errcode", "transport", "errcode">>
    /\ tok.ret = NoToken
    /\ access_token # NoToken
    /\ refresh_token # NoToken
    /\ token_expiry # NoExpiry

\* C29: while the enabled flag is false none of make_call, answer_call,
\* hangup_call, get_webrtc_signature, auth.get_access_token and
\* PBXSettings.get_access_token sends a request to the vendor (to a call
\* endpoint, or for a token), and the stored tokens stay as they are.
C29_DisabledSendsNothing ==
    [][ ~enabled
        => /\ UNCHANGED <<access_token, refresh_token, token_expiry>>
           /\ call' # call
                 => /\ call'.reqs = <<>>
                    /\ call'.token = "unasked"
                    /\ ~call'.success ]_vars

\* Tokens are stored, the integration has been disabled, and answer_call was
\* refused for that reason without a request.
C29_RefusedWhileDisabled ==
    /\ ~enabled
    /\ access_token # NoToken
    /\ call.op = "answer_call"
    /\ call.message = "PBX integration is disabled"
    /\ call.reqs = <<>>
    /\ call.token = "unasked"

-----------------------------------------------------------------------------
(* The two matchers side by side *)

\* C30: for every phone number with which a row is looked up and every
\* content of the Contact, Customer and Lead tables, the contact, customer
\* and lead that lookup_and_link stores on the row are the contact, customer
\* and lead of a result of lookup_phone_number for the same number.
C30_MatchersAgree ==
    (look.op = "lookup_and_link" /\ look.result.phone # <<>>)
        => \E r \in lookup_phone_number(look.db, look.result.phone) :
              /\ r.contact = look.result.contact
              /\ r.customer = look.result.customer
              /\ r.lead = look.result.lead

====
